---------------------------- MODULE Spec2Model ----------------------------
(***************************************************************************)
(* The rule-based SEO scoring engine (lib/seoEngine.ts) as a state         *)
(* machine.  A JavaScript string is a sequence of one-character strings,   *)
(* so that length, lower-casing, substring search and the regular          *)
(* expressions of the engine are computed character by character.          *)
(* The scrape endpoint (app/api/scrape/route.ts) and the dashboard         *)
(* component (app/page.tsx) that feed the engine are state machines of     *)
(* their own over the same strings.                                        *)
(***************************************************************************)
EXTENDS Integers, Sequences, FiniteSets, TLC

VARIABLES
    input,      \* the SeoInput handed to analyzeSeo
    pc,         \* "start" before the call, "done" once analyzeSeo has returned
    contrib,    \* the eight increments analyzeSeo added to its local score
    result,     \* the SeoResult analyzeSeo returned
    calls,      \* the completed invocations, oldest first
    req,        \* the request the scrape endpoint is handling
    apiKey,     \* process.env.FIRECRAWL_API_KEY
    response,   \* what the fetch of the Firecrawl API resolved to
    reply,      \* what POST returned
    routePc,    \* the position of POST
    form,       \* the dashboard's form state
    scraping,   \* the dashboard's scraping flag
    scrapeError,            \* the dashboard's scrape error message
    competitorAnalysis,     \* the dashboard's competitor report, or null
    analyzingCompetitor,    \* the dashboard's competitor flag
    scrapeCall,             \* the handleScrape call awaiting its fetch
    competitorCall          \* the analyzeCompetitor call awaiting its fetch

engineVars == <<input, pc, contrib, result, calls>>
routeVars == <<req, apiKey, response, reply, routePc>>
dashboardVars ==
    <<form, scraping, scrapeError, competitorAnalysis, analyzingCompetitor,
      scrapeCall, competitorCall>>

vars == <<engineVars, routeVars, dashboardVars>>

---------------------------------------------------------------------------
(* Strings *)

\* String.prototype.toLowerCase on one character
LowerOf ==
    ("A" :> "a") @@ ("B" :> "b") @@ ("C" :> "c") @@ ("D" :> "d") @@
    ("E" :> "e") @@ ("F" :> "f") @@ ("G" :> "g") @@ ("H" :> "h") @@
    ("I" :> "i") @@ ("J" :> "j") @@ ("K" :> "k") @@ ("L" :> "l") @@
    ("M" :> "m") @@ ("N" :> "n") @@ ("O" :> "o") @@ ("P" :> "p") @@
    ("Q" :> "q") @@ ("R" :> "r") @@ ("S" :> "s") @@ ("T" :> "t") @@
    ("U" :> "u") @@ ("V" :> "v") @@ ("W" :> "w") @@ ("X" :> "x") @@
    ("Y" :> "y") @@ ("Z" :> "z") @@ ("Ø" :> "ø") @@ ("Å" :> "å") @@
    ("Æ" :> "æ")

Lower(c) == IF c \in DOMAIN LowerOf THEN LowerOf[c] ELSE c

toLowerCase(s) == [i \in 1..Len(s) |-> Lower(s[i])]

\* t occurs in s starting at index i (1-based)
StartsAt(s, i, t) ==
    /\ i + Len(t) - 1 <= Len(s)
    /\ \A j \in 1..Len(t) : s[i + j - 1] = t[j]

\* String.prototype.includes
includes(s, t) == \E i \in 1..(Len(s) - Len(t) + 1) : StartsAt(s, i, t)

\* Array.prototype.join(' ')
RECURSIVE join(_)
join(parts) ==
    IF Len(parts) = 0 THEN <<>>
    ELSE IF Len(parts) = 1 THEN parts[1]
    ELSE parts[1] \o <<" ">> \o join(Tail(parts))

\* the characters the class \s matches
WhiteSpace == {" ", "\n", "\t"}

---------------------------------------------------------------------------
(* countOccurrences *)

\* the character class of keyword.replace(/[.*+?^${}()|[\]\\]/g, '\\$&')
MetaChars == {".", "*", "+", "?", "^", "$", "{", "}", "(", ")", "|", "[", "]", "\\"}

RECURSIVE escapeRegExpKeepsDot(_)
escapeRegExpKeepsDot(keyword) ==
    IF Len(keyword) = 0 THEN <<>>
    ELSE (IF Head(keyword) \in MetaChars \ {"."} THEN <<"\\", Head(keyword)>>
                                                 ELSE <<Head(keyword)>>)
         \o escapeRegExpKeepsDot(Tail(keyword))

RECURSIVE escapeRegExp(_)
escapeRegExp(keyword) ==
    IF Len(keyword) = 0 THEN <<>>
    ELSE (IF Head(keyword) \in MetaChars THEN <<"\\", Head(keyword)>>
                                          ELSE <<Head(keyword)>>)
         \o escapeRegExp(Tail(keyword))

\* the atom of an unescaped "." in a pattern
AnyChar == "any"

\* new RegExp(source, 'g') for a source of literals, identity escapes and
\* dots: what the pattern matches, character by character; an escaped
\* character stands for itself, an unescaped "." for AnyChar
RECURSIVE regExpAtoms(_)
regExpAtoms(source) ==
    IF Len(source) = 0 THEN <<>>
    ELSE IF Head(source) = "\\" /\ Len(source) >= 2
         THEN <<source[2]>> \o regExpAtoms(Tail(Tail(source)))
         ELSE <<IF Head(source) = "." THEN AnyChar ELSE Head(source)>>
              \o regExpAtoms(Tail(source))

\* the atom matches the character c; "." matches all but line terminators
atomMatches(atom, c) == IF atom = AnyChar THEN c # "\n" ELSE atom = c

\* the least element of a non-empty set of numbers
Min(S) == CHOOSE x \in S : \A y \in S : x <= y
Max(S) == CHOOSE x \in S : \A y \in S : x >= y

\* String.prototype.match with a global pattern: the number of matches found
\* from index i on, where starts holds the indexes at which the pattern
\* matches and ends[p] is the index of the last character of the match at p.
\* Each search resumes after the previous match; an empty match advances the
\* search by one character
RECURSIVE globalCount(_, _, _)
globalCount(starts, ends, i) ==
    LET rest == {p \in starts : p >= i}
    IN  IF rest = {} THEN 0
        ELSE LET p == Min(rest)
             IN  1 + globalCount(starts, ends, IF ends[p] < p THEN p + 1 ELSE ends[p] + 1)

\* the matches of a pattern of literal atoms
matchCount(text, atoms) ==
    LET starts == {i \in 1..(Len(text) + 1) :
                      /\ i + Len(atoms) - 1 <= Len(text)
                      /\ \A j \in 1..Len(atoms) : atomMatches(atoms[j], text[i + j - 1])}
    IN  globalCount(starts, [p \in starts |-> p + Len(atoms) - 1], 1)

countOccurrences(text, keyword) ==
    IF Len(text) = 0 \/ Len(keyword) = 0 THEN 0
    ELSE LET lowered == toLowerCase(text)
             atoms == regExpAtoms(toLowerCase(escapeRegExp(keyword)))
         IN  matchCount(lowered, atoms)

fullText(in) ==
    toLowerCase(join(<<in.pageTitle, in.metaDescription, in.h1, in.bodyContent>>))

---------------------------------------------------------------------------
(* The page texts and keywords of the checked inputs *)

\* "red shoes"
KwRedShoes ==
    <<"r", "e", "d", " ", "s", "h", "o", "e", "s">>
\* "Red Shoes"
KwRedShoesCaps ==
    <<"R", "e", "d", " ", "S", "h", "o", "e", "s">>
\* " "
KwBlank ==
    <<" ">>
\* "sale"
KwSale ==
    <<"s", "a", "l", "e">>
\* "boots"
KwBoots ==
    <<"b", "o", "o", "t", "s">>
\* "socks"
KwSocks ==
    <<"s", "o", "c", "k", "s">>
\* "hats"
KwHats ==
    <<"h", "a", "t", "s">>
\* "bags"
KwBags ==
    <<"b", "a", "g", "s">>
\* "coats"
KwCoats ==
    <<"c", "o", "a", "t", "s">>
\* "belts"
KwBelts ==
    <<"b", "e", "l", "t", "s">>
\* "Buy Red Shoes Online Today Fast"
TitleExample ==
    <<"B", "u", "y", " ", "R", "e", "d", " ", "S", "h", "o", "e", "s", " ", "O", "n", "l", "i", "n", "e", " ", "T", "o", "d", "a", "y", " ", "F", "a", "s", "t">>
\* "Red shoes at HTTPS://a.dk/shop"
TitleUrl ==
    <<"R", "e", "d", " ", "s", "h", "o", "e", "s", " ", "a", "t", " ", "H", "T", "T", "P", "S", ":", "/", "/", "a", ".", "d", "k", "/", "s", "h", "o", "p">>
\* "[red shoes](/red) and <A class=x href=/sale>sale</a>"
MetaLinks ==
    <<"[", "r", "e", "d", " ", "s", "h", "o", "e", "s", "]", "(", "/", "r", "e", "d", ")", " ", "a", "n", "d", " ", "<", "A", " ", "c", "l", "a", "s", "s", "=", "x", " ", "h", "r", "e", "f", "=", "/", "s", "a", "l", "e", ">", "s", "a", "l", "e", "<", "/", "a", ">">>
\* "Shoes"
H1Plain ==
    <<"S", "h", "o", "e", "s">>
\* "Best RED SHOES"
H1Keyword ==
    <<"B", "e", "s", "t", " ", "R", "E", "D", " ", "S", "H", "O", "E", "S">>
\* "red shoes are red shoes"
BodyPlain ==
    <<"r", "e", "d", " ", "s", "h", "o", "e", "s", " ", "a", "r", "e", " ", "r", "e", "d", " ", "s", "h", "o", "e", "s">>
\* "## Red shoes sale\n[shop](https://a.dk/red) red shoes red shoes <a href=x>\n## FAQ boots"
BodyRich ==
    <<"#", "#", " ", "R", "e", "d", " ", "s", "h", "o", "e", "s", " ", "s", "a", "l", "e", "\n", "[", "s", "h", "o", "p", "]", "(", "h", "t", "t", "p", "s", ":", "/", "/", "a", ".", "d", "k", "/", "r", "e", "d", ")", " ", "r", "e", "d", " ", "s", "h", "o", "e", "s", " ", "r", "e", "d", " ", "s", "h", "o", "e", "s", " ", "<", "a", " ", "h", "r", "e", "f", "=", "x", ">", "\n", "#", "#", " ", "F", "A", "Q", " ", "b", "o", "o", "t", "s">>
\* "see http://a.dk now"
BodyUrl ==
    <<"s", "e", "e", " ", "h", "t", "t", "p", ":", "/", "/", "a", ".", "d", "k", " ", "n", "o", "w">>
\* "Read our FAQ"
BodyFaqWord ==
    <<"R", "e", "a", "d", " ", "o", "u", "r", " ", "F", "A", "Q">>
\* "## **F**_A_Q om sko"
BodyFaqMarkup ==
    <<"#", "#", " ", "*", "*", "F", "*", "*", "_", "A", "_", "Q", " ", "o", "m", " ", "s", "k", "o">>
\* "shoes and fa"
BodyFaqSplit ==
    <<"s", "h", "o", "e", "s", " ", "a", "n", "d", " ", "f", "a">>
\* "Q&A"
H1QuestionMark ==
    <<"Q", "&", "A">>
\* "Q is next"
H1Continues ==
    <<"Q", " ", "i", "s", " ", "n", "e", "x", "t">>
\* "Red shoes Questions answered here"
TitleQuestions ==
    <<"R", "e", "d", " ", "s", "h", "o", "e", "s", " ", "Q", "u", "e", "s", "t", "i", "o", "n", "s", " ", "a", "n", "s", "w", "e", "r", "e", "d", " ", "h", "e", "r", "e">>
\* "  Red Shoes "
FieldPadded ==
    <<" ", " ", "R", "e", "d", " ", "S", "h", "o", "e", "s", " ">>
\* " sale, ,socks,	boots ,"
FieldSemantic ==
    <<" ", "s", "a", "l", "e", ",", " ", ",", "s", "o", "c", "k", "s", ",", "	", "b", "o", "o", "t", "s", " ", ",">>
\* " http://shop.b.dk \nhttps://a.dk/red"
FieldCompetitor ==
    <<" ", "h", "t", "t", "p", ":", "/", "/", "s", "h", "o", "p", ".", "b", ".", "d", "k", " ", "\n", "h", "t", "t", "p", "s", ":", "/", "/", "a", ".", "d", "k", "/", "r", "e", "d">>
\* "https://a.dk/red"
UrlPage ==
    <<"h", "t", "t", "p", "s", ":", "/", "/", "a", ".", "d", "k", "/", "r", "e", "d">>
\* "http://shop.b.dk"
UrlOther ==
    <<"h", "t", "t", "p", ":", "/", "/", "s", "h", "o", "p", ".", "b", ".", "d", "k">>
\* "a.dk/red"
UrlNoScheme ==
    <<"a", ".", "d", "k", "/", "r", "e", "d">>
\* "menu\n# Red Shoes\n## Sale\n[shop](https://a.dk/sale) [x](https://b.dk/y)\n## FAQ\nred shoes"
MdPage ==
    <<"m", "e", "n", "u", "\n", "#", " ", "R", "e", "d", " ", "S", "h", "o", "e", "s", "\n", "#", "#", " ", "S", "a", "l", "e", "\n", "[", "s", "h", "o", "p", "]", "(", "h", "t", "t", "p", "s", ":", "/", "/", "a", ".", "d", "k", "/", "s", "a", "l", "e", ")", " ", "[", "x", "]", "(", "h", "t", "t", "p", "s", ":", "/", "/", "b", ".", "d", "k", "/", "y", ")", "\n", "#", "#", " ", "F", "A", "Q", "\n", "r", "e", "d", " ", "s", "h", "o", "e", "s">>
\* "red shoes [a](http://shop.b.dk/a) ##not a heading"
MdNoHeading ==
    <<"r", "e", "d", " ", "s", "h", "o", "e", "s", " ", "[", "a", "]", "(", "h", "t", "t", "p", ":", "/", "/", "s", "h", "o", "p", ".", "b", ".", "d", "k", "/", "a", ")", " ", "#", "#", "n", "o", "t", " ", "a", " ", "h", "e", "a", "d", "i", "n", "g">>
\* "# \n##	tabbed [b](https://a.dk)"
MdBlankHeading ==
    <<"#", " ", "\n", "#", "#", "	", "t", "a", "b", "b", "e", "d", " ", "[", "b", "]", "(", "h", "t", "t", "p", "s", ":", "/", "/", "a", ".", "d", "k", ")">>
\* "Buy red shoes, boots and socks"
DescPlain ==
    <<"B", "u", "y", " ", "r", "e", "d", " ", "s", "h", "o", "e", "s", ",", " ", "b", "o", "o", "t", "s", " ", "a", "n", "d", " ", "s", "o", "c", "k", "s">>
\* "Buy red shoes online,  Free delivery on every order of red shoes and boots above 500 kr"
DescJoined ==
    <<"B", "u", "y", " ", "r", "e", "d", " ", "s", "h", "o", "e", "s", " ", "o", "n", "l", "i", "n", "e", ",", " ", " ", "F", "r", "e", "e", " ", "d", "e", "l", "i", "v", "e", "r", "y", " ", "o", "n", " ", "e", "v", "e", "r", "y", " ", "o", "r", "d", "e", "r", " ", "o", "f", " ", "r", "e", "d", " ", "s", "h", "o", "e", "s", " ", "a", "n", "d", " ", "b", "o", "o", "t", "s", " ", "a", "b", "o", "v", "e", " ", "5", "0", "0", " ", "k", "r">>
\* "quota exceeded"
TextQuota ==
    <<"q", "u", "o", "t", "a", " ", "e", "x", "c", "e", "e", "d", "e", "d">>
\* "<H2>Red shoes</h2> for sale"
BodyOneH2 ==
    <<"<", "H", "2", ">", "R", "e", "d", " ", "s", "h", "o", "e", "s", "<", "/", "h", "2", ">", " ", "f", "o", "r", " ", "s", "a", "l", "e">>

---------------------------------------------------------------------------
(* The engine's own heuristics *)

\* input.bodyContent.split(/\s+/).filter(Boolean).length: the number of
\* maximal runs of non-whitespace characters
splitWords(body) ==
    Cardinality({i \in 1..Len(body) :
        /\ body[i] \notin WhiteSpace
        /\ (i = 1 \/ body[i - 1] \in WhiteSpace)})

\* the alternatives of /##|<h2/gi
H2Markers == << <<"#", "#">>, <<"<", "h", "2">> >>

\* (input.bodyContent.match(/##|<h2/gi) || []).length; of the alternatives
\* matching at an index the earliest listed one is taken
detectH2(body) ==
    LET text == toLowerCase(body)
        Alt(p) == Min({k \in 1..Len(H2Markers) : StartsAt(text, p, H2Markers[k])})
        starts == {i \in 1..Len(text) : \E k \in 1..Len(H2Markers) : StartsAt(text, i, H2Markers[k])}
    IN  globalCount(starts, [p \in starts |-> p + Len(H2Markers[Alt(p)]) - 1], 1)

\* the first index >= i of s holding a character of stop, or Len(s) + 1
firstOf(s, i, stop) ==
    LET at == {j \in i..Len(s) : s[j] \in stop}
    IN  IF at = {} THEN Len(s) + 1 ELSE Min(at)

\* /\[([^\]]+)\]\(([^)]+)\)/ tried at index i: the index of the closing ")",
\* or 0 when the pattern does not match there
markdownLinkAt(s, i) ==
    IF i > Len(s) \/ s[i] # "[" THEN 0
    ELSE LET j == firstOf(s, i + 1, {"]"})
         IN  IF j > Len(s) \/ j = i + 1 \/ j + 1 > Len(s) \/ s[j + 1] # "(" THEN 0
             ELSE LET k == firstOf(s, j + 2, {")"})
                  IN  IF k > Len(s) \/ k = j + 2 THEN 0 ELSE k

\* /https?:\/\/[^\s<>"]+/i tried at index i of the lower-cased text: the index
\* of the last character matched, or 0
plainUrlAt(s, i) ==
    LET http  == <<"h", "t", "t", "p", ":", "/", "/">>
        https == <<"h", "t", "t", "p", "s", ":", "/", "/">>
        from  == IF StartsAt(s, i, https) THEN i + 8
                 ELSE IF StartsAt(s, i, http) THEN i + 7 ELSE 0
        stop  == IF from = 0 THEN 0 ELSE firstOf(s, from, WhiteSpace \cup {"<", ">", "\""})
    IN  IF from = 0 \/ stop = from THEN 0 ELSE stop - 1

\* /<a[^>]+href/i tried at index i of the lower-cased text: the index of the
\* last character matched, or 0.  [^>]+ is greedy, so the last "href" before
\* the next ">" ends the match
htmlLinkAt(s, i) ==
    IF ~StartsAt(s, i, <<"<", "a">>) THEN 0
    ELSE LET stop == firstOf(s, i + 2, {">"})
             at   == {p \in (i + 3)..(stop - 4) : StartsAt(s, p, <<"h", "r", "e", "f">>)}
         IN  IF at = {} THEN 0 ELSE Max(at) + 3

\* the number of matches of a global pattern, given for every index of the
\* text the index of the last character of the match tried there, or 0
patternCount(ends) ==
    globalCount({i \in DOMAIN ends : ends[i] # 0}, ends, 1)

\* the link detection of analyzeSeo over body + ' ' + title + ' ' + description
detectLinks(in) ==
    LET allContent == in.bodyContent \o <<" ">> \o in.pageTitle \o <<" ">> \o in.metaDescription
        lowered == toLowerCase(allContent)
        markdownLinks == patternCount([i \in 1..Len(allContent) |-> markdownLinkAt(allContent, i)])
        plainUrls == patternCount([i \in 1..Len(lowered) |-> plainUrlAt(lowered, i)])
        htmlLinks == patternCount([i \in 1..Len(lowered) |-> htmlLinkAt(lowered, i)])
    IN  markdownLinks + plainUrls + htmlLinks

\* the alternatives of /(faq|ofte stillede spørgsmål|spørgsmål og svar|q&a|questions)/i
FaqPhrases ==
    { <<"f", "a", "q">>,
      <<"o", "f", "t", "e", " ", "s", "t", "i", "l", "l", "e", "d", "e", " ",
        "s", "p", "ø", "r", "g", "s", "m", "å", "l">>,
      <<"s", "p", "ø", "r", "g", "s", "m", "å", "l", " ", "o", "g", " ",
        "s", "v", "a", "r">>,
      <<"q", "&", "a">>,
      <<"q", "u", "e", "s", "t", "i", "o", "n", "s">> }

\* allText.replace(/[_*#]/g, '')
stripMarkdown(s) == SelectSeq(s, LAMBDA c : c \notin {"_", "*", "#"})

hasFaq(in) ==
    LET allText == toLowerCase(in.bodyContent \o in.h1 \o in.pageTitle)
        cleanText == stripMarkdown(allText)
    IN  \E p \in FaqPhrases : includes(cleanText, p)

---------------------------------------------------------------------------
(* analyzeSeo *)

\* an optional number of SeoInput: <<>> when the property is absent, <<n>>
\* when it is n; Nullish is the operator ??
Absent == <<>>
Nullish(opt, default) == IF opt = Absent THEN default ELSE opt[1]

\* MathRound with Math.floor in place of Math.round
MathFloor(num, den) == num \div den

\* Math.round of the non-negative fraction num / den
MathRound(num, den) == (2 * num + den) \div (2 * den)

\* allKeywords with whitespace-only entries dropped as well
allKeywordsTrimmed(in) ==
    SelectSeq(<<in.targetKeyword>> \o in.semanticKeywords,
              LAMBDA kw : \E i \in 1..Len(kw) : kw[i] \notin WhiteSpace)

\* [input.targetKeyword, ...input.semanticKeywords].filter(Boolean)
allKeywords(in) ==
    SelectSeq(<<in.targetKeyword>> \o in.semanticKeywords, LAMBDA kw : Len(kw) > 0)

\* wordCount with || in place of ??: a supplied 0 falls back to the body
wordCountTruthy(in) ==
    IF in.wordCount = Absent \/ in.wordCount[1] = 0 THEN splitWords(in.bodyContent)
    ELSE in.wordCount[1]

wordCount(in) == Nullish(in.wordCount, splitWords(in.bodyContent))

titleHasKeyword(in) == includes(toLowerCase(in.pageTitle), toLowerCase(in.targetKeyword))
\* titleGoodLength with the limits excluded
titleGoodLengthExclusive(in) == Len(in.pageTitle) > 30 /\ Len(in.pageTitle) < 65

titleGoodLength(in) == Len(in.pageTitle) >= 30 /\ Len(in.pageTitle) <= 65

metaHasKeyword(in) == includes(toLowerCase(in.metaDescription), toLowerCase(in.targetKeyword))
\* metaGoodLength with the limits excluded
metaGoodLengthExclusive(in) == Len(in.metaDescription) > 120 /\ Len(in.metaDescription) < 160

metaGoodLength(in) == Len(in.metaDescription) >= 120 /\ Len(in.metaDescription) <= 160

h1HasKeyword(in) == includes(toLowerCase(in.h1), toLowerCase(in.targetKeyword))
h1Present(in) == Len(in.h1) > 0

targetCount(in) == countOccurrences(fullText(in), in.targetKeyword)

semanticCovered(in) ==
    LET text == fullText(in)
    IN  Len(SelectSeq(in.semanticKeywords, LAMBDA kw : countOccurrences(text, kw) >= 1))

\* input.semanticKeywords.length || 1
semanticTotal(in) == IF Len(in.semanticKeywords) = 0 THEN 1 ELSE Len(in.semanticKeywords)

h2Count(in) == Nullish(in.h2Count, detectH2(in.bodyContent))

\* internalLinks with a supplied count of 0 kept as the count
internalLinksNullish(in) == Nullish(in.internalLinks, detectLinks(in))

internalLinks(in) ==
    LET passed == Nullish(in.internalLinks, 0)
    IN  IF passed = 0 THEN detectLinks(in) ELSE passed

\* the eight increments of the local score, in the order of the code
titlePoints(in) ==
    (IF titleHasKeyword(in) THEN 10 ELSE 0) + (IF titleGoodLength(in) THEN 5 ELSE 0)

metaPoints(in) ==
    (IF metaHasKeyword(in) THEN 8 ELSE 0) + (IF metaGoodLength(in) THEN 7 ELSE 0)

h1Points(in) ==
    (IF h1Present(in) THEN 5 ELSE 0) + (IF h1HasKeyword(in) THEN 5 ELSE 0)

\* contentPoints with the tier limits excluded
contentPointsExclusive(w) ==
    IF w > 800 THEN 20
    ELSE IF w > 500 THEN 14
    ELSE IF w > 300 THEN 8
    ELSE IF w > 150 THEN 4
    ELSE 0

contentPoints(w) ==
    IF w >= 800 THEN 20
    ELSE IF w >= 500 THEN 14
    ELSE IF w >= 300 THEN 8
    ELSE IF w >= 150 THEN 4
    ELSE 0

\* densityPoints with the tier limits excluded
densityPointsExclusive(c) ==
    IF c > 6 THEN 15
    ELSE IF c > 4 THEN 10
    ELSE IF c > 2 THEN 5
    ELSE IF c > 1 THEN 2
    ELSE 0

densityPoints(c) ==
    IF c >= 6 THEN 15
    ELSE IF c >= 4 THEN 10
    ELSE IF c >= 2 THEN 5
    ELSE IF c >= 1 THEN 2
    ELSE 0

\* semanticPoints with full credit for an empty semantic keyword list
semanticPointsVacuous(in) ==
    IF Len(in.semanticKeywords) = 0 THEN 15
    ELSE MathRound(semanticCovered(in) * 15, semanticTotal(in))

semanticPoints(in) == MathRound(semanticCovered(in) * 15, semanticTotal(in))

\* subheadingPoints without the middle tier
subheadingPointsBinary(h) == IF h >= 2 THEN 5 ELSE 0

subheadingPoints(h) == IF h >= 2 THEN 5 ELSE IF h >= 1 THEN 3 ELSE 0

\* linkPoints with 5 points for each link
linkPointsPerLink(l) == 5 * l

linkPoints(l) == IF l >= 1 THEN 5 ELSE 0

scoreParts(in) ==
    << titlePoints(in), metaPoints(in), h1Points(in), contentPoints(wordCount(in)),
       densityPoints(targetCount(in)), semanticPoints(in),
       subheadingPoints(h2Count(in)), linkPoints(internalLinks(in)) >>

RECURSIVE Sum(_)
Sum(s) == IF Len(s) = 0 THEN 0 ELSE Head(s) + Sum(Tail(s))

\* the keyword table
\* keywordStatus with a count equal to the minimum still to optimise
keywordStatusInclusive(count, recMin) ==
    IF count = 0 THEN "Mangler"
    ELSE IF count <= recMin THEN "Optimer"
    ELSE "God"

keywordStatus(count, recMin) ==
    IF count = 0 THEN "Mangler"
    ELSE IF count < recMin THEN "Optimer"
    ELSE "God"

\* isTarget with letter case ignored
isTargetIgnoreCase(kw, in) == toLowerCase(kw) = toLowerCase(in.targetKeyword)

isTarget(kw, in) == kw = in.targetKeyword

keywordResult(kw, in) ==
    LET count == countOccurrences(fullText(in), kw)
        recMin == IF isTarget(kw, in) THEN 5 ELSE 2
        recMax == IF isTarget(kw, in) THEN 9 ELSE 4
    IN  [keyword |-> kw, status |-> keywordStatus(count, recMin), currentCount |-> count,
         recommendedMin |-> recMin, recommendedMax |-> recMax]

keywordResults(in) ==
    LET all == allKeywords(in)
    IN  [i \in 1..Len(all) |-> keywordResult(all[i], in)]

countStatusOfTail(krs, st) ==
    IF krs = <<>> THEN 0 ELSE Len(SelectSeq(Tail(krs), LAMBDA k : k.status = st))

\* keywordResults.filter(k => k.status === st).length
countStatus(krs, st) == Len(SelectSeq(krs, LAMBDA k : k.status = st))

\* keywordResults.filter(k => k.status === 'Mangler').map(k => k.keyword)
missingKeywords(krs) ==
    LET missing == SelectSeq(krs, LAMBDA k : k.status = "Mangler")
    IN  [i \in 1..Len(missing) |-> missing[i].keyword]

\* Array.prototype.slice(0, n)
slice(s, n) == SubSeq(s, 1, IF Len(s) < n THEN Len(s) ELSE n)

\* a templated text of the report: the template chosen, the number and the
\* strings interpolated into it
Text(variant, n, strs) == [variant |-> variant, n |-> n, strs |-> strs]

\* titleRecommendation with a warning, not an error, for a title of good
\* length that lacks the keyword
titleRecommendationLenient(in) ==
    LET tHas == titleHasKeyword(in)
        tLen == titleGoodLength(in)
    IN  [id |-> "title", label |-> "Title Tag",
         status |-> IF tHas /\ tLen THEN "ok" ELSE IF tHas \/ tLen THEN "warn" ELSE "error",
         statusLabel |-> IF tHas /\ tLen THEN Text("Optimised", 0, <<>>)
                         ELSE IF tHas \/ tLen THEN Text("1 advarsel", 0, <<>>)
                         ELSE Text("1 fejl", 0, <<>>),
         detail |-> IF tHas
                    THEN IF tLen THEN Text("title good", Len(in.pageTitle), <<>>)
                                 ELSE Text("title length", Len(in.pageTitle), <<>>)
                    ELSE Text("title lacks keyword", 0, <<in.targetKeyword>>)]

titleRecommendation(in) ==
    LET tHas == titleHasKeyword(in)
        tLen == titleGoodLength(in)
    IN  [id |-> "title", label |-> "Title Tag",
         status |-> IF tHas /\ tLen THEN "ok" ELSE IF tHas THEN "warn" ELSE "error",
         statusLabel |-> IF tHas /\ tLen THEN Text("Optimised", 0, <<>>)
                         ELSE IF tHas THEN Text("1 advarsel", 0, <<>>)
                         ELSE Text("1 fejl", 0, <<>>),
         detail |-> IF tHas
                    THEN IF tLen THEN Text("title good", Len(in.pageTitle), <<>>)
                                 ELSE Text("title length", Len(in.pageTitle), <<>>)
                    ELSE Text("title lacks keyword", 0, <<in.targetKeyword>>)]

h1Recommendation(in) ==
    LET hHas == h1HasKeyword(in)
        hPre == h1Present(in)
    IN  [id |-> "h1", label |-> "H1",
         status |-> IF hHas THEN "ok" ELSE IF hPre THEN "warn" ELSE "error",
         statusLabel |-> IF hHas THEN Text("Optimised", 0, <<>>)
                         ELSE IF hPre THEN Text("1 advarsel", 0, <<>>)
                         ELSE Text("1 fejl", 0, <<>>),
         detail |-> IF hHas THEN Text("h1 optimised", 0, <<in.targetKeyword>>)
                    ELSE IF hPre THEN Text("h1 lacks keyword", 0, <<in.h1>>)
                    ELSE Text("no h1", 0, <<>>)]

subheadingsRecommendation(h2) ==
    [id |-> "subheadings", label |-> "Subheadings",
     status |-> IF h2 >= 2 THEN "ok" ELSE IF h2 >= 1 THEN "warn" ELSE "error",
     statusLabel |-> IF h2 >= 2 THEN Text("Optimised", 0, <<>>)
                     ELSE Text("n fundet", h2, <<>>),
     detail |-> IF h2 >= 2 THEN Text("h2 good", h2, <<>>)
                ELSE Text("h2 few", h2, <<>>)]

contentRecommendation(w) ==
    [id |-> "content", label |-> "Content Length",
     status |-> IF w >= 500 THEN "ok" ELSE IF w >= 300 THEN "warn" ELSE "error",
     statusLabel |-> IF w >= 500 THEN Text("Optimised", 0, <<>>)
                     ELSE Text("1 fejl", 0, <<>>),
     detail |-> IF w >= 800 THEN Text("content excellent", w, <<>>)
                ELSE IF w >= 500 THEN Text("content good", w, <<>>)
                ELSE Text("content short", w, <<>>)]

linksRecommendation(il) ==
    [id |-> "links", label |-> "Internal Links",
     status |-> IF il >= 1 THEN "ok" ELSE "error",
     statusLabel |-> IF il >= 1 THEN Text("Optimised", 0, <<>>)
                     ELSE Text("0 fundet", 0, <<>>),
     detail |-> IF il >= 1
                THEN IF il = 1 THEN Text("one link", il, <<>>)
                               ELSE Text("links good", il, <<>>)
                ELSE Text("no links", 0, <<>>)]

metaRecommendation(in) ==
    LET mHas == metaHasKeyword(in)
        mLen == metaGoodLength(in)
    IN  [id |-> "meta", label |-> "Meta Description",
         status |-> IF mHas /\ mLen THEN "ok" ELSE IF mHas THEN "warn" ELSE "error",
         statusLabel |-> IF mHas /\ mLen THEN Text("Optimised", 0, <<>>)
                         ELSE Text("1 fejl", 0, <<>>),
         detail |-> IF mHas
                    THEN IF mLen THEN Text("meta optimised", Len(in.metaDescription), <<>>)
                                 ELSE Text("meta length", Len(in.metaDescription), <<>>)
                    ELSE IF Len(in.metaDescription) < 120
                         THEN Text("meta lacks keyword or short", Len(in.metaDescription), <<>>)
                         ELSE Text("meta lacks keyword or long", Len(in.metaDescription), <<>>)]

\* hasFaqInRecommendation without the removal of the markdown characters
hasFaqInRecommendationRaw(in) ==
    LET allText == toLowerCase(in.bodyContent \o in.h1 \o in.pageTitle)
    IN  \E p \in FaqPhrases : includes(allText, p)

\* the hasFaq that the faq recommendation computes for itself
hasFaqInRecommendation(in) ==
    LET allText == toLowerCase(in.bodyContent \o in.h1 \o in.pageTitle)
        cleanText == stripMarkdown(allText)
    IN  \E p \in FaqPhrases : includes(cleanText, p)

faqRecommendation(in) ==
    LET faq == hasFaqInRecommendation(in)
    IN  [id |-> "faq", label |-> "FAQ Section",
         status |-> IF faq THEN "ok" ELSE "warn",
         statusLabel |-> IF faq THEN Text("Optimised", 0, <<>>)
                         ELSE Text("1 advarsel", 0, <<>>),
         detail |-> IF faq THEN Text("faq found", 0, <<>>)
                    ELSE Text("no faq", 0, <<>>)]

\* recommendations listing only the topics that need work
recommendationsToFix(in) ==
    SelectSeq(<< titleRecommendation(in), h1Recommendation(in),
                 subheadingsRecommendation(h2Count(in)),
                 contentRecommendation(wordCount(in)),
                 linksRecommendation(internalLinks(in)), metaRecommendation(in),
                 faqRecommendation(in) >>,
              LAMBDA r : r.status # "ok")

recommendations(in) ==
    << titleRecommendation(in), h1Recommendation(in),
       subheadingsRecommendation(h2Count(in)), contentRecommendation(wordCount(in)),
       linksRecommendation(internalLinks(in)), metaRecommendation(in),
       faqRecommendation(in) >>

\* contentDepthGap with a page of exactly 500 words still too short
contentDepthGapInclusive(w) ==
    [num |-> "Gap 01 · Indholdslængde", tag |-> "#4f7fff",
     title |-> IF w <= 500 THEN Text("Siden er for kort", 0, <<>>)
               ELSE Text("Indholdsdybde", 0, <<>>),
     description |-> IF w <= 500 THEN Text("too thin", w, <<>>)
                     ELSE Text("deepen", w, <<>>),
     color |-> "#4f7fff"]

contentDepthGap(w) ==
    [num |-> "Gap 01 · Indholdslængde", tag |-> "#4f7fff",
     title |-> IF w < 500 THEN Text("Siden er for kort", 0, <<>>)
               ELSE Text("Indholdsdybde", 0, <<>>),
     description |-> IF w < 500 THEN Text("too thin", w, <<>>)
                     ELSE Text("deepen", w, <<>>),
     color |-> "#4f7fff"]

\* missingKeywordsGap with the suffix already at four missing keywords
missingKeywordsGapEarlySuffix(missing) ==
    [num |-> "Gap 02 · Manglende keywords", tag |-> "#ff7043",
     title |-> IF Len(missing) > 0 THEN Text("n keywords mangler", Len(missing), <<>>)
               ELSE Text("Semantisk dækning", 0, <<>>),
     description |-> IF Len(missing) > 0
                     THEN Text(IF Len(missing) >= 4 THEN "not found m.fl." ELSE "not found",
                               0, slice(missing, 4))
                     ELSE Text("all covered", 0, <<>>),
     color |-> "#ff7043"]

missingKeywordsGap(missing) ==
    [num |-> "Gap 02 · Manglende keywords", tag |-> "#ff7043",
     title |-> IF Len(missing) > 0 THEN Text("n keywords mangler", Len(missing), <<>>)
               ELSE Text("Semantisk dækning", 0, <<>>),
     description |-> IF Len(missing) > 0
                     THEN Text(IF Len(missing) > 4 THEN "not found m.fl." ELSE "not found",
                               0, slice(missing, 4))
                     ELSE Text("all covered", 0, <<>>),
     color |-> "#ff7043"]

structuredDataGap ==
    [num |-> "Gap 03 · Strukturerede data", tag |-> "#2dce89",
     title |-> Text("FAQ + JSON-LD mangler", 0, <<>>),
     description |-> Text("faq json-ld missing", 0, <<>>),
     color |-> "#2dce89"]

contentGaps(in, missing) ==
    << contentDepthGap(wordCount(in)), missingKeywordsGap(missing), structuredDataGap >>

metaQuickWin(in, missing) ==
    IF ~metaHasKeyword(in) \/ ~metaGoodLength(in)
    THEN << [priority |-> "red", title |-> "Opdatér meta description",
             detail |-> Text("add to meta", 0, <<in.targetKeyword>> \o slice(missing, 2))] >>
    ELSE <<>>

contentQuickWin(w) ==
    IF w < 500
    THEN << [priority |-> "red", title |-> "Tilføj mere indhold (~300 ord)",
             detail |-> Text("only n words", w, <<>>)] >>
    ELSE <<>>

keywordsQuickWin(missing) ==
    IF Len(missing) > 0
    THEN << [priority |-> "yellow", title |-> "Inkludér manglende semantiske keywords",
             detail |-> Text("use keywords", 0, slice(missing, 3))] >>
    ELSE <<>>

faqQuickWin(in) ==
    IF ~hasFaq(in)
    THEN << [priority |-> "yellow", title |-> "Tilføj FAQ-sektion med JSON-LD",
             detail |-> Text("faq rich snippets", 0, <<>>)] >>
    ELSE <<>>

\* linksQuickWin raised to the highest priority
linksQuickWinUrgent(il) ==
    IF il < 3
    THEN << [priority |-> "red", title |-> "Byg interne links fra relaterede sider",
             detail |-> Text("link from related", 0, <<>>)] >>
    ELSE <<>>

linksQuickWin(il) ==
    IF il < 3
    THEN << [priority |-> "green", title |-> "Byg interne links fra relaterede sider",
             detail |-> Text("link from related", 0, <<>>)] >>
    ELSE <<>>

\* quickWins with the checks chained by else: the first one that holds wins
quickWinsFirstOnly(in, missing) ==
    IF metaQuickWin(in, missing) # <<>> THEN metaQuickWin(in, missing)
    ELSE IF contentQuickWin(wordCount(in)) # <<>> THEN contentQuickWin(wordCount(in))
    ELSE IF keywordsQuickWin(missing) # <<>> THEN keywordsQuickWin(missing)
    ELSE IF faqQuickWin(in) # <<>> THEN faqQuickWin(in)
    ELSE linksQuickWin(internalLinks(in))

quickWins(in, missing) ==
    metaQuickWin(in, missing) \o contentQuickWin(wordCount(in))
    \o keywordsQuickWin(missing) \o faqQuickWin(in)
    \o linksQuickWin(internalLinks(in))

\* totalScore with the score kept outside the function and never reset
totalScoreShared(in) ==
    Sum(scoreParts(in)) + (IF calls = <<>> THEN 0 ELSE calls[Len(calls)].result.score)

\* let score = 0, then the eight increments: the local score at the return
totalScore(in) == Sum(scoreParts(in))

analyzeSeo(in) ==
    LET score == totalScore(in)
        krs == keywordResults(in)
        missing == missingKeywords(krs)
    IN  [score |-> score,
         maxScore |-> 100,
         percentage |-> IF MathRound(score, 1) < 100 THEN MathRound(score, 1) ELSE 100,
         keywords |-> krs,
         recommendations |-> recommendations(in),
         contentGaps |-> contentGaps(in, missing),
         quickWins |-> quickWins(in, missing),
         wordCount |-> wordCount(in),
         keywordsFound |-> countStatus(krs, "God"),
         keywordsMissing |-> countStatus(krs, "Mangler"),
         keywordsOptimise |-> countStatus(krs, "Optimer")]

---------------------------------------------------------------------------
(* The inputs the calls are made with *)

\* n filler characters, neither whitespace nor part of any keyword
Pad(n) == [i \in 1..n |-> "x"]

\* a text of n characters that starts with the target keyword
WithKeyword(n) == KwRedShoes \o Pad(n - Len(KwRedShoes))

\* a body of n one-letter words, each followed by a space
Words(n) == [i \in 1..(2 * n) |-> IF i % 2 = 1 THEN "w" ELSE " "]

Targets == {<<>>, KwRedShoes, KwRedShoesCaps, KwBlank}

Titles ==
    {<<>>, TitleExample, WithKeyword(29), WithKeyword(30), WithKeyword(65),
     WithKeyword(66), Pad(30)}

Metas ==
    {<<>>, WithKeyword(119), WithKeyword(120), WithKeyword(160), WithKeyword(161),
     Pad(120)}

H1s == {<<>>, H1Plain, H1Keyword}

Bodies == {<<>>, BodyPlain, BodyRich, BodyUrl, BodyOneH2}

SemanticLists ==
    {<<>>, <<KwSale>>, <<KwSale, KwSocks>>, <<KwSale, KwBoots, KwRedShoes>>,
     <<<<>>, KwBlank, KwBoots>>, <<KwSocks, <<>>, KwSale, KwBlank>>,
     <<KwSale, KwBoots, KwSocks>>, <<KwSale, KwSocks, KwHats, KwBags>>,
     <<KwSocks, KwSale, KwHats, KwBags, KwCoats, KwBelts>>}

WordCounts == {Absent, <<0>>, <<149>>, <<150>>, <<299>>, <<300>>, <<499>>, <<500>>, <<799>>, <<800>>}
LinkCounts == {Absent, <<0>>, <<1>>, <<2>>, <<3>>}
H2Counts == {Absent, <<0>>, <<1>>, <<2>>}

BaseInput ==
    [url |-> "https://a.dk/red", competitorUrls |-> <<>>,
     targetKeyword |-> KwRedShoes, semanticKeywords |-> <<KwSale, KwBoots>>,
     pageTitle |-> TitleExample, metaDescription |-> WithKeyword(120),
     h1 |-> H1Keyword, bodyContent |-> BodyRich,
     wordCount |-> Absent, internalLinks |-> Absent, h2Count |-> Absent]

TitleInputs ==
    {[BaseInput EXCEPT !.targetKeyword = k, !.pageTitle = t, !.h1 = h] :
        k \in Targets, t \in Titles, h \in H1s}

MetaInputs ==
    {[BaseInput EXCEPT !.targetKeyword = k, !.metaDescription = m, !.bodyContent = b] :
        k \in Targets, m \in Metas, b \in Bodies}

SemanticInputs ==
    {[BaseInput EXCEPT !.targetKeyword = k, !.semanticKeywords = s, !.bodyContent = b] :
        k \in Targets, s \in SemanticLists, b \in Bodies}

OverrideInputs ==
    {[BaseInput EXCEPT !.bodyContent = b, !.wordCount = w, !.internalLinks = l,
                       !.h2Count = h] :
        b \in Bodies, w \in WordCounts, l \in LinkCounts, h \in H2Counts}

ExtremeInputs ==
    {[BaseInput EXCEPT !.targetKeyword = k, !.semanticKeywords = s, !.pageTitle = t,
                       !.metaDescription = m, !.h1 = h, !.bodyContent = b,
                       !.wordCount = w, !.internalLinks = l, !.h2Count = c] :
        k \in {<<>>, KwRedShoes}, s \in {<<>>, <<KwSale, KwBoots>>},
        t \in {<<>>, TitleExample}, m \in {<<>>, WithKeyword(120)},
        h \in {<<>>, H1Keyword}, b \in {<<>>, BodyRich},
        w \in {Absent, <<800>>}, l \in {Absent, <<1>>}, c \in {Absent, <<2>>}}

\* links in the title and in the description as well as in the body
LinkInputs ==
    {[BaseInput EXCEPT !.pageTitle = t, !.metaDescription = m, !.bodyContent = b,
                       !.internalLinks = l] :
        t \in {TitleExample, TitleUrl}, m \in {WithKeyword(120), MetaLinks},
        b \in {<<>>, BodyPlain, BodyUrl}, l \in LinkCounts}

\* FAQ phrases in the body, the H1 and the title, behind markdown characters
\* and across the end of the body
FaqInputs ==
    {[BaseInput EXCEPT !.pageTitle = t, !.h1 = h, !.bodyContent = b] :
        t \in {TitleExample, TitleQuestions},
        h \in {<<>>, H1Plain, H1QuestionMark, H1Continues},
        b \in {BodyPlain, BodyFaqWord, BodyFaqMarkup, BodyFaqSplit}}

\* bodies whose own word count lies at the limits of the content tiers
WordInputs ==
    {[BaseInput EXCEPT !.bodyContent = Words(n)] :
        n \in {149, 150, 299, 300, 499, 500, 799, 800}}

\* how often the densest body repeats the target keyword
MaxRepeats == 7

\* a body of k times the target keyword, each followed by a space
Repeated(k) ==
    LET unit == KwRedShoes \o <<" ">>
    IN  [i \in 1..(k * Len(unit)) |-> unit[((i - 1) % Len(unit)) + 1]]

\* pages whose only occurrences of the target keyword are the k of the body
DensityInputs ==
    {[BaseInput EXCEPT !.targetKeyword = t, !.pageTitle = Pad(30),
                       !.metaDescription = Pad(120), !.h1 = H1Plain,
                       !.bodyContent = Repeated(k)] :
        t \in {KwRedShoes, KwRedShoesCaps}, k \in 0..MaxRepeats}

Inputs ==
    TitleInputs \cup MetaInputs \cup SemanticInputs \cup OverrideInputs \cup ExtremeInputs
    \cup WordInputs \cup DensityInputs \cup LinkInputs
    \cup FaqInputs

\* the inputs of the runs that call analyzeSeo several times
CallInputs ==
    {[BaseInput EXCEPT !.targetKeyword = k, !.semanticKeywords = s, !.bodyContent = b] :
        k \in {KwRedShoes, <<>>}, s \in {<<>>, <<KwSale, KwSocks>>},
        b \in {BodyPlain, BodyRich}}

\* how many invocations a run records
MaxCalls == 3

---------------------------------------------------------------------------
(* The state machine *)

NoResult ==
    [score |-> 0, maxScore |-> 0, percentage |-> 0, keywords |-> <<>>,
     recommendations |-> <<>>, contentGaps |-> <<>>, quickWins |-> <<>>,
     wordCount |-> 0, keywordsFound |-> 0, keywordsMissing |-> 0, keywordsOptimise |-> 0]

\* no request has reached the scrape endpoint
NoRequest == [json |-> "none", url |-> <<>>]
NoPage == [markdown |-> <<>>, title |-> <<>>, description |-> <<>>]
NoResponse == [ok |-> FALSE, status |-> 0, body |-> "none", text |-> <<>>, page |-> NoPage]
NoPayload ==
    [title |-> <<>>, description |-> <<>>, h1 |-> <<>>, bodyContent |-> <<>>,
     wordCount |-> 0, internalLinks |-> 0, h2Count |-> 0, url |-> <<>>]
NoReply == [status |-> 0, success |-> FALSE, error |-> <<>>, data |-> NoPayload]

RouteIdle ==
    /\ req = NoRequest
    /\ apiKey = ""
    /\ response = NoResponse
    /\ reply = NoReply
    /\ routePc = "idle"

DEFAULT_FORM ==
    [url |-> <<>>, competitorUrls |-> <<>>, targetKeyword |-> <<>>,
     semanticKeywords |-> <<>>, customKeywords |-> <<>>, pageTitle |-> <<>>,
     metaDescription |-> <<>>, h1 |-> <<>>, bodyContent |-> <<>>]

\* no answer of fetch('/api/scrape') has arrived
NoOutcome == [kind |-> "none", ok |-> FALSE, error |-> "", data |-> NoPayload]

\* no call of handleScrape or analyzeCompetitor is awaiting its fetch
NoCall ==
    [active |-> FALSE, url |-> <<>>, targetKeyword |-> <<>>, semanticKeywords |-> <<>>,
     settled |-> FALSE, outcome |-> NoOutcome]

\* useState(null) of competitorAnalysis
NoAnalysis == [url |-> <<>>, result |-> NoResult]

\* the dashboard as mounted, with nothing typed
DashboardIdle ==
    /\ form = DEFAULT_FORM
    /\ scraping = FALSE
    /\ scrapeError = ""
    /\ competitorAnalysis = NoAnalysis
    /\ analyzingCompetitor = FALSE
    /\ scrapeCall = NoCall
    /\ competitorCall = NoCall

Init ==
    /\ input \in Inputs
    /\ pc = "start"
    /\ contrib = <<>>
    /\ result = NoResult
    /\ calls = <<>>
    /\ RouteIdle
    /\ DashboardIdle

\* one synchronous call analyzeSeo(input): the locals are fresh, the input is
\* only read, and the report is returned to the caller
Analyze ==
    /\ pc = "start"
    /\ pc' = "done"
    /\ contrib' = scoreParts(input)
    /\ result' = analyzeSeo(input)
    /\ calls' = Append(calls, [input |-> input, result |-> result'])
    /\ UNCHANGED <<input, routeVars, dashboardVars>>

Next == Analyze

Spec == Init /\ [][Next]_vars

\* the caller invokes the engine again, with any input
NewCall ==
    /\ pc = "done"
    /\ Len(calls) < MaxCalls
    /\ \E in \in CallInputs : input' = in
    /\ pc' = "start"
    /\ UNCHANGED <<contrib, result, calls, routeVars, dashboardVars>>

InitCalls ==
    /\ input \in CallInputs
    /\ pc = "start"
    /\ contrib = <<>>
    /\ result = NoResult
    /\ calls = <<>>
    /\ RouteIdle
    /\ DashboardIdle

NextCalls == Analyze \/ NewCall

SpecCalls == InitCalls /\ [][NextCalls]_vars

---------------------------------------------------------------------------
(* The scrape endpoint: POST of app/api/scrape/route.ts *)

\* String.prototype.split with a one-character separator
RECURSIVE split(_, _)
split(s, sep) ==
    LET at == {i \in 1..Len(s) : s[i] = sep}
    IN  IF at = {} THEN <<s>>
        ELSE <<SubSeq(s, 1, Min(at) - 1)>> \o split(SubSeq(s, Min(at) + 1, Len(s)), sep)

\* String.prototype.trim
trim(s) ==
    LET keep == {i \in 1..Len(s) : s[i] \notin WhiteSpace}
    IN  IF keep = {} THEN <<>> ELSE SubSeq(s, Min(keep), Max(keep))

\* the index at which the host of an http(s) URL starts, or 0: new URL(url)
\* throws for a string without a scheme
hostStart(url) ==
    IF StartsAt(url, 1, <<"h", "t", "t", "p", "s", ":", "/", "/">>) THEN 9
    ELSE IF StartsAt(url, 1, <<"h", "t", "t", "p", ":", "/", "/">>) THEN 8
    ELSE 0

\* new URL(url).hostname of an http(s) URL
hostname(url) ==
    SubSeq(url, hostStart(url), firstOf(url, hostStart(url), {"/", "?", "#", ":"}) - 1)

\* markdown.match(/^#\s+(.+)$/m)?.[1], or the empty sequence when there is
\* no match: the greedy \s+ gives characters back until a character other
\* than a line break follows, and (.+) runs to the end of that line
h1Match(markdown) ==
    LET RunEnd(p) == firstOf(markdown, p + 1, {c \in {markdown[i] : i \in 1..Len(markdown)} :
                                                   c \notin WhiteSpace}) - 1
        Stops(p) == {k \in (p + 1)..RunEnd(p) : k + 1 <= Len(markdown) /\ markdown[k + 1] # "\n"}
        starts == {p \in 1..Len(markdown) :
                      /\ markdown[p] = "#"
                      /\ (p = 1 \/ markdown[p - 1] = "\n")
                      /\ Stops(p) # {}}
    IN  IF starts = {} THEN <<>>
        ELSE LET k == Max(Stops(Min(starts)))
             IN  SubSeq(markdown, k + 1, firstOf(markdown, k + 1, {"\n"}) - 1)

\* markdown.match(/^##\s+/gm)?.length ?? 0
h2Matches(markdown) ==
    Cardinality({p \in 1..Len(markdown) :
        /\ StartsAt(markdown, p, <<"#", "#">>)
        /\ (p = 1 \/ markdown[p - 1] = "\n")
        /\ p + 2 <= Len(markdown) /\ markdown[p + 2] \in WhiteSpace})

\* the pattern `\\[.*?\\]\\(https?://${domain.replace('.', '\\.')}` tried at
\* index i: the index of the last character matched, or 0.  Only the first
\* dot of the domain is escaped, a later one matches any character but a
\* line break; .*? takes the nearest place where the rest matches
internalLinkAt(markdown, domain, i) ==
    LET firstDot == firstOf(domain, 1, {"."})
        DomainAt(p) ==
            /\ p + Len(domain) - 1 <= Len(markdown)
            /\ \A j \in 1..Len(domain) :
                   IF domain[j] = "." /\ j # firstDot
                   THEN markdown[p + j - 1] # "\n"
                   ELSE markdown[p + j - 1] = domain[j]
        TailEnd(j) ==
            IF StartsAt(markdown, j, <<"]", "(", "h", "t", "t", "p", "s", ":", "/", "/">>)
               /\ DomainAt(j + 10)
            THEN j + 9 + Len(domain)
            ELSE IF StartsAt(markdown, j, <<"]", "(", "h", "t", "t", "p", ":", "/", "/">>)
                    /\ DomainAt(j + 9)
            THEN j + 8 + Len(domain)
            ELSE 0
        lineEnd == firstOf(markdown, i + 1, {"\n"})
        tails == {j \in (i + 1)..(lineEnd - 1) : TailEnd(j) # 0}
    IN  IF i > Len(markdown) \/ markdown[i] # "[" \/ tails = {} THEN 0
        ELSE TailEnd(Min(tails))

internalLinkMatches(markdown, url) ==
    patternCount([i \in 1..Len(markdown) |-> internalLinkAt(markdown, hostname(url), i)])

\* the scraped description: only the part before the first comma when a
\* long second part follows it
fixDescription(description) ==
    LET parts == split(description, ",")
    IN  IF includes(description, <<",">>) /\ Len(parts) > 1 /\ Len(trim(parts[2])) > 50
        THEN trim(parts[1])
        ELSE description

\* the fields of the success result, from data.data of the Firecrawl answer
scraped(page, url) ==
    [title |-> page.title,
     description |-> fixDescription(page.description),
     h1 |-> IF h1Match(page.markdown) # <<>> THEN h1Match(page.markdown) ELSE page.title,
     bodyContent |-> page.markdown,
     wordCount |-> splitWords(page.markdown),
     internalLinks |-> internalLinkMatches(page.markdown, url),
     h2Count |-> h2Matches(page.markdown),
     url |-> url]

\* NextResponse.json({ error }, { status })
failure(status, error) ==
    [status |-> status, success |-> FALSE, error |-> error, data |-> NoPayload]

Requests ==
    {[json |-> "invalid", url |-> <<>>], [json |-> "null", url |-> <<>>]}
    \cup {[json |-> "object", url |-> u] : u \in {<<>>, UrlPage, UrlOther, UrlNoScheme}}

Pages ==
    {[markdown |-> m, title |-> t, description |-> d] :
        m \in {<<>>, MdPage, MdNoHeading, MdBlankHeading}, t \in {<<>>, TitleExample},
        d \in {<<>>, DescPlain, DescJoined}}

\* what the fetch of the Firecrawl API can resolve to: a status outside
\* 200..299 with a text, or status 200 with a body that is no JSON, the JSON
\* null, a JSON object without data, or a scraped page; "broken" is a body
\* whose reading fails
Responses ==
    {[ok |-> FALSE, status |-> st, body |-> b, text |-> t, page |-> NoPage] :
        st \in {402, 429, 503}, b \in {"text", "broken"}, t \in {<<>>, TextQuota}}
    \cup {[ok |-> TRUE, status |-> 200, body |-> b, text |-> <<>>, page |-> NoPage] :
        b \in {"invalid json", "null", "no data", "broken"}}
    \cup {[ok |-> TRUE, status |-> 200, body |-> "page", text |-> <<>>, page |-> p] :
        p \in Pages}

InitRoute ==
    /\ input = BaseInput
    /\ pc = "start"
    /\ contrib = <<>>
    /\ result = NoResult
    /\ calls = <<>>
    /\ DashboardIdle
    /\ req \in Requests
    /\ apiKey \in {"", "fc-key"}
    /\ response = NoResponse
    /\ reply = NoReply
    /\ routePc = "start"

\* const { url } = await req.json() outside the try block: a body that is
\* no JSON rejects, and the JSON null cannot be destructured
RequestUnreadable ==
    /\ routePc = "start"
    /\ req.json \in {"invalid", "null"}
    /\ routePc' = "thrown"
    /\ UNCHANGED <<req, apiKey, response, reply, engineVars, dashboardVars>>

MissingUrl ==
    /\ routePc = "start"
    /\ req.json = "object"
    /\ req.url = <<>>
    /\ reply' = failure(400, <<"URL er påkrævet">>)
    /\ routePc' = "returned"
    /\ UNCHANGED <<req, apiKey, response, engineVars, dashboardVars>>

MissingApiKey ==
    /\ routePc = "start"
    /\ req.json = "object"
    /\ req.url # <<>>
    /\ apiKey = ""
    /\ reply' = failure(500, <<"FIRECRAWL_API_KEY er ikke sat">>)
    /\ routePc' = "returned"
    /\ UNCHANGED <<req, apiKey, response, engineVars, dashboardVars>>

StartFetch ==
    /\ routePc = "start"
    /\ req.json = "object"
    /\ req.url # <<>>
    /\ apiKey # ""
    /\ routePc' = "fetching"
    /\ UNCHANGED <<req, apiKey, response, reply, engineVars, dashboardVars>>

\* the fetch rejects: the catch block answers
FetchRejects ==
    /\ routePc = "fetching"
    /\ reply' = failure(500, <<"Ukendt fejl ved scraping">>)
    /\ routePc' = "returned"
    /\ UNCHANGED <<req, apiKey, response, engineVars, dashboardVars>>

FetchResolves ==
    /\ routePc = "fetching"
    /\ response' \in Responses
    /\ routePc' = "resolved"
    /\ UNCHANGED <<req, apiKey, reply, engineVars, dashboardVars>>

UpstreamNotOk ==
    /\ routePc = "resolved"
    /\ ~response.ok
    /\ response.body = "text"
    /\ reply' = failure(response.status, <<"Firecrawl fejl: ", response.text>>)
    /\ routePc' = "returned"
    /\ UNCHANGED <<req, apiKey, response, engineVars, dashboardVars>>

\* response.text() or response.json() rejects inside the try block
UpstreamUnreadable ==
    /\ routePc = "resolved"
    /\ response.body \in {"broken", "invalid json"}
    /\ reply' = failure(500, <<"Ukendt fejl ved scraping">>)
    /\ routePc' = "returned"
    /\ UNCHANGED <<req, apiKey, response, engineVars, dashboardVars>>

\* data.data of null, or new URL(url) of a string without a scheme, throws
\* inside the try block
PostProcessingThrows ==
    /\ routePc = "resolved"
    /\ response.ok
    /\ response.body \in {"null", "no data", "page"}
    /\ response.body = "null" \/ hostStart(req.url) = 0
    /\ reply' = failure(500, <<"Ukendt fejl ved scraping">>)
    /\ routePc' = "returned"
    /\ UNCHANGED <<req, apiKey, response, engineVars, dashboardVars>>

ReturnSuccess ==
    /\ routePc = "resolved"
    /\ response.ok
    /\ response.body \in {"no data", "page"}
    /\ hostStart(req.url) # 0
    /\ reply' = [status |-> 200, success |-> TRUE, error |-> <<>>,
                 data |-> scraped(response.page, req.url)]
    /\ routePc' = "returned"
    /\ UNCHANGED <<req, apiKey, response, engineVars, dashboardVars>>

NextRoute ==
    \/ RequestUnreadable
    \/ MissingUrl
    \/ MissingApiKey
    \/ StartFetch
    \/ FetchRejects
    \/ FetchResolves
    \/ UpstreamNotOk
    \/ UpstreamUnreadable
    \/ PostProcessingThrows
    \/ ReturnSuccess

SpecRoute == InitRoute /\ [][NextRoute]_vars

---------------------------------------------------------------------------
(* The dashboard: SeoDashboard of app/page.tsx *)

\* Array.prototype.map(s => s.trim())
trimAll(parts) == [i \in 1..Len(parts) |-> trim(parts[i])]

formInputUntrimmed(f) ==
    [url |-> f.url,
     competitorUrls |-> SelectSeq(trimAll(split(f.competitorUrls, "\n")),
                                  LAMBDA s : s # <<>>),
     targetKeyword |-> f.targetKeyword,
     semanticKeywords |-> SelectSeq(split(f.semanticKeywords, ","),
                                    LAMBDA s : s # <<>>),
     pageTitle |-> f.pageTitle, metaDescription |-> f.metaDescription,
     h1 |-> f.h1, bodyContent |-> f.bodyContent,
     wordCount |-> Absent, internalLinks |-> Absent, h2Count |-> Absent]

\* the SeoInput the recalculation effect builds from the form
formInput(f) ==
    [url |-> f.url,
     competitorUrls |-> SelectSeq(trimAll(split(f.competitorUrls, "\n")),
                                  LAMBDA s : s # <<>>),
     targetKeyword |-> trim(f.targetKeyword),
     semanticKeywords |-> SelectSeq(trimAll(split(f.semanticKeywords, ",")),
                                    LAMBDA s : s # <<>>),
     pageTitle |-> f.pageTitle, metaDescription |-> f.metaDescription,
     h1 |-> f.h1, bodyContent |-> f.bodyContent,
     wordCount |-> Absent, internalLinks |-> Absent, h2Count |-> Absent]

\* the SeoInput analyzeCompetitor builds from the answer of the scrape
\* endpoint and from the form values its closure holds
competitorInput(call) ==
    [url |-> call.url, competitorUrls |-> <<>>,
     targetKeyword |-> trim(call.targetKeyword),
     semanticKeywords |-> SelectSeq(trimAll(split(call.semanticKeywords, ",")),
                                    LAMBDA s : s # <<>>),
     pageTitle |-> call.outcome.data.title,
     metaDescription |-> call.outcome.data.description,
     h1 |-> call.outcome.data.h1, bodyContent |-> call.outcome.data.bodyContent,
     wordCount |-> Absent, internalLinks |-> Absent, h2Count |-> Absent]

\* form.competitorUrls.split('\n')[0]?.trim()
competitorUrl(f) == trim(split(f.competitorUrls, "\n")[1])

OrScraped(a, b) == a

\* a || b of two strings
OrElse(a, b) == IF a # <<>> THEN a ELSE b

\* the values typed into the fields of the form
FieldValues ==
    [url |-> {<<>>, UrlPage},
     competitorUrls |-> {<<>>, FieldCompetitor},
     targetKeyword |-> {<<>>, KwBlank, FieldPadded},
     semanticKeywords |-> {<<>>, FieldSemantic},
     bodyContent |-> {<<>>, BodyPlain}]

PageFull == [markdown |-> MdPage, title |-> TitleExample, description |-> DescPlain]

\* how fetch('/api/scrape') followed by res.json() can end for the URL
\* asked for: the fetch rejects, the body is no JSON (the generic page of a
\* handler that threw), a failure result with or without an error field, a
\* 2xx result carrying an error field, or a success result; an error of ""
\* is an absent error field
Outcomes(url) ==
    {[kind |-> "network", ok |-> FALSE, error |-> "", data |-> NoPayload],
     [kind |-> "not json", ok |-> FALSE, error |-> "", data |-> NoPayload],
     [kind |-> "json", ok |-> FALSE, error |-> "Firecrawl fejl: quota exceeded",
      data |-> NoPayload],
     [kind |-> "json", ok |-> FALSE, error |-> "", data |-> NoPayload],
     [kind |-> "json", ok |-> TRUE, error |-> "Ukendt fejl ved scraping",
      data |-> NoPayload],
     [kind |-> "json", ok |-> TRUE, error |-> "", data |-> scraped(PageFull, url)],
     [kind |-> "json", ok |-> TRUE, error |-> "", data |-> scraped(NoPage, url)]}

\* the try block of handleScrape or analyzeCompetitor ends without a page:
\* an exception, or !res.ok || data.error
failed(outcome) == outcome.kind # "json" \/ ~outcome.ok \/ outcome.error # ""

\* the effect on [form], which React runs after every render that follows a
\* setForm and before the next event is handled: setResult(null) for an
\* empty target keyword field, else setResult(analyzeSeo(input))
recalculated(f) ==
    IF f.targetKeyword = <<>> THEN NoResult ELSE analyzeSeo(formInput(f))

\* the dashboard once mounted: the effect has run on DEFAULT_FORM
InitDashboard ==
    /\ input = BaseInput
    /\ pc = "start"
    /\ contrib = <<>>
    /\ result = recalculated(DEFAULT_FORM)
    /\ calls = <<>>
    /\ RouteIdle
    /\ DashboardIdle

\* updateForm(key, val)
updateForm ==
    /\ \E key \in DOMAIN FieldValues : \E val \in FieldValues[key] :
           form' = [form EXCEPT ![key] = val]
    /\ result' = recalculated(form')
    /\ UNCHANGED <<input, pc, contrib, calls, routeVars, scraping, scrapeError,
                   competitorAnalysis, analyzingCompetitor, scrapeCall, competitorCall>>

\* the "Ryd alt" button, confirmed
clearAll ==
    /\ form' = DEFAULT_FORM
    /\ competitorAnalysis' = NoAnalysis
    /\ scrapeError' = ""
    /\ result' = recalculated(form')
    /\ UNCHANGED <<input, pc, contrib, calls, routeVars, scraping,
                   analyzingCompetitor, scrapeCall, competitorCall>>

\* handleScrape up to its await; the button is disabled while scraping or
\* without a URL
handleScrape ==
    /\ form.url # <<>>
    /\ ~scraping
    /\ scraping' = TRUE
    /\ scrapeError' = ""
    /\ scrapeCall' = [NoCall EXCEPT !.active = TRUE, !.url = form.url]
    /\ UNCHANGED <<engineVars, routeVars, form, competitorAnalysis, analyzingCompetitor,
                   competitorCall>>

\* the fetch and res.json() of handleScrape settle
scrapeSettles ==
    /\ scrapeCall.active
    /\ ~scrapeCall.settled
    /\ \E o \in Outcomes(scrapeCall.url) :
           scrapeCall' = [scrapeCall EXCEPT !.settled = TRUE, !.outcome = o]
    /\ UNCHANGED <<engineVars, routeVars, form, scraping, scrapeError, competitorAnalysis,
                   analyzingCompetitor, competitorCall>>

\* handleScrape after its await, on a failure: the catch block or the
\* early return, then finally
scrapeFails ==
    /\ scrapeCall.active
    /\ scrapeCall.settled
    /\ failed(scrapeCall.outcome)
    /\ scrapeError' = IF scrapeCall.outcome.kind # "json"
                      THEN "Netværksfejl - tjek din forbindelse"
                      ELSE IF scrapeCall.outcome.error # "" THEN scrapeCall.outcome.error
                      ELSE "Scraping fejlede"
    /\ scraping' = FALSE
    /\ scrapeCall' = NoCall
    /\ UNCHANGED <<engineVars, routeVars, form, competitorAnalysis, analyzingCompetitor,
                   competitorCall>>

\* handleScrape after its await, on a success result: setForm, then finally
scrapeSucceeds ==
    /\ scrapeCall.active
    /\ scrapeCall.settled
    /\ ~failed(scrapeCall.outcome)
    /\ form' = [form EXCEPT
                   !.pageTitle = OrElse(scrapeCall.outcome.data.title, form.pageTitle),
                   !.metaDescription =
                       OrElse(scrapeCall.outcome.data.description, form.metaDescription),
                   !.h1 = OrElse(scrapeCall.outcome.data.h1, form.h1),
                   !.bodyContent =
                       OrElse(scrapeCall.outcome.data.bodyContent, form.bodyContent)]
    /\ result' = recalculated(form')
    /\ scraping' = FALSE
    /\ scrapeCall' = NoCall
    /\ UNCHANGED <<input, pc, contrib, calls, routeVars, scrapeError,
                   competitorAnalysis, analyzingCompetitor, competitorCall>>

NextDashboard ==
    \/ updateForm
    \/ clearAll
    \/ handleScrape
    \/ scrapeSettles
    \/ scrapeFails
    \/ scrapeSucceeds

SpecDashboard == InitDashboard /\ [][NextDashboard]_vars

\* analyzeCompetitor up to its await; the button is disabled while an
\* analysis runs, and the closure keeps the form values of the click
analyzeCompetitor ==
    /\ ~analyzingCompetitor
    /\ competitorUrl(form) # <<>>
    /\ form.targetKeyword # <<>>
    /\ analyzingCompetitor' = TRUE
    /\ competitorCall' = [NoCall EXCEPT !.active = TRUE, !.url = competitorUrl(form),
                                        !.targetKeyword = form.targetKeyword,
                                        !.semanticKeywords = form.semanticKeywords]
    /\ UNCHANGED <<engineVars, routeVars, form, scraping, scrapeError, competitorAnalysis,
                   scrapeCall>>

\* the fetch and res.json() of analyzeCompetitor settle
competitorSettles ==
    /\ competitorCall.active
    /\ ~competitorCall.settled
    /\ \E o \in Outcomes(competitorCall.url) :
           competitorCall' = [competitorCall EXCEPT !.settled = TRUE, !.outcome = o]
    /\ UNCHANGED <<engineVars, routeVars, form, scraping, scrapeError, competitorAnalysis,
                   analyzingCompetitor, scrapeCall>>

\* analyzeCompetitor after its await, on a failure: silent, then finally
competitorFails ==
    /\ competitorCall.active
    /\ competitorCall.settled
    /\ failed(competitorCall.outcome)
    /\ analyzingCompetitor' = FALSE
    /\ competitorCall' = NoCall
    /\ UNCHANGED <<engineVars, routeVars, form, scraping, scrapeError, competitorAnalysis,
                   scrapeCall>>

\* analyzeCompetitor after its await, on a success result
competitorSucceeds ==
    /\ competitorCall.active
    /\ competitorCall.settled
    /\ ~failed(competitorCall.outcome)
    /\ competitorAnalysis' = [url |-> competitorCall.url,
                              result |-> analyzeSeo(competitorInput(competitorCall))]
    /\ analyzingCompetitor' = FALSE
    /\ competitorCall' = NoCall
    /\ UNCHANGED <<engineVars, routeVars, form, scraping, scrapeError, scrapeCall>>

NextCompetitor ==
    \/ updateForm
    \/ clearAll
    \/ analyzeCompetitor
    \/ competitorSettles
    \/ competitorFails
    \/ competitorSucceeds

SpecCompetitor == InitDashboard /\ [][NextCompetitor]_vars

---------------------------------------------------------------------------
(* countOccurrences applied on its own *)

\* texts and keywords with pattern metacharacters, letters of both cases,
\* overlapping repetitions and the empty string
CountTexts ==
    {<<>>,
     <<"C", "+", "+", " ", "a", "n", "d", " ", "c", "+", "+", " ", "o", "r", " ", "c", "+", " ", "c", "c", "c", "+", "+", "+">>,
     <<"Q", "&", "A", " ", "q", "&", "a", " ", "q", "a">>,
     <<"a", "x", "b", " ", "a", ".", "b", " ", "A", ".", "B", " ", "a", "\n", "b">>,
     <<"a", "a", "a", "a", "a">>,
     <<"a", "a", "a">>,
     <<"R", "e", "d", " ", "S", "h", "o", "e", "s", " ", "r", "e", "d", " ", "s", "h", "o", "e", "s", "r", "e", "d", " ", "s", "h", "o", "e", "s">>,
     <<"(", "x", ")", " ", "x", " ", "[", "x", "]", " ", "x", "*", " ", "x", "x", " ", "$", "1", " ", "a", "|", "b", " ", "a", " ", "b", " ", "|">>,
     <<"a", "\\", "d", " ", "a", "\\", "D", " ", "a", "d", " ", "a", "1">>}

CountKeywords ==
    {<<>>,
     <<"c", "+", "+">>,
     <<"C", "+", "+">>,
     <<"Q", "&", "A">>,
     <<"a", ".", "b">>,
     <<"a", "a">>,
     <<"r", "e", "d", " ", "s", "h", "o", "e", "s">>,
     <<"(", "x", ")">>,
     <<"a", "|", "b">>,
     <<"$", "1">>,
     <<"x", "*">>,
     <<"[", "x", "]">>,
     <<"a", "\\", "d">>,
     <<".">>}

\* a call of countOccurrences(text, keyword) about to be made
InitCount ==
    /\ input \in [text : CountTexts, keyword : CountKeywords]
    /\ pc = "start"
    /\ contrib = <<>>
    /\ result = NoResult
    /\ calls = <<>>
    /\ RouteIdle
    /\ DashboardIdle

\* the call returns
Count ==
    /\ pc = "start"
    /\ pc' = "done"
    /\ result' = countOccurrences(input.text, input.keyword)
    /\ UNCHANGED <<input, contrib, calls, routeVars, dashboardVars>>

SpecCount == InitCount /\ [][Count]_vars

---------------------------------------------------------------------------
(* Properties *)

\* the point budgets of the eight factors
Budgets == <<15, 15, 10, 20, 15, 15, 5, 5>>

\* t occurs in s when letter case is ignored
ContainsIgnoringCase(s, t) ==
    \E off \in 0..(Len(s) - Len(t)) :
        \A j \in 1..Len(t) : Lower(s[off + j]) = Lower(t[j])

\* the keyword strings of the returned keyword list, in order
ReportedKeywords == [i \in 1..Len(result.keywords) |-> result.keywords[i].keyword]

\* the quick win with the given title is in the returned list
HasQuickWin(title) == \E i \in 1..Len(result.quickWins) : result.quickWins[i].title = title

\* C1: the returned score is the sum of the eight factor contributions, each
\* within its budget, it lies within 0..100, and the percentage is
\* min(round(score), 100).
C1_ScoreIsBoundedSum ==
    pc = "done" =>
        /\ Len(contrib) = 8
        /\ \A i \in 1..8 : contrib[i] >= 0 /\ contrib[i] <= Budgets[i]
        /\ result.score = contrib[1] + contrib[2] + contrib[3] + contrib[4]
                          + contrib[5] + contrib[6] + contrib[7] + contrib[8]
        /\ result.score >= 0 /\ result.score <= 100
        /\ result.percentage = (IF result.score <= 100 THEN result.score ELSE 100)

\* a call that earned every point of every factor
C1_FullScoreReached == pc = "done" /\ result.score = 100 /\ contrib = Budgets

\* C2 as claimed: with an empty semantic keyword list the semantic-coverage
\* factor contributes the full 15 points.
C2_EmptySemanticFullCredit ==
    (pc = "done" /\ input.semanticKeywords = <<>>) => contrib[6] = 15

\* C2 as amended: with an empty semantic keyword list the denominator defaults
\* to 1 and nothing is covered, so the semantic-coverage factor contributes 0.
C2_EmptySemanticNoCredit ==
    (pc = "done" /\ input.semanticKeywords = <<>>) => contrib[6] = 0

\* a call with no semantic keywords on a page that earns points elsewhere
C2_EmptySemanticReached ==
    pc = "done" /\ input.semanticKeywords = <<>> /\ result.score > 0

\* the report is the one a word count of w gives
UsesWordCount(w) ==
    /\ result.wordCount = w
    /\ contrib[4] = (IF w >= 800 THEN 20 ELSE IF w >= 500 THEN 14
                     ELSE IF w >= 300 THEN 8 ELSE IF w >= 150 THEN 4 ELSE 0)
    /\ result.recommendations[4].status =
           (IF w >= 500 THEN "ok" ELSE IF w >= 300 THEN "warn" ELSE "error")
    /\ result.recommendations[4].detail.n = w
    /\ result.contentGaps[1].description.n = w
    /\ (result.contentGaps[1].description.variant = "too thin") <=> (w < 500)
    /\ HasQuickWin("Tilføj mere indhold (~300 ord)") <=> (w < 500)
    /\ \A i \in 1..Len(result.quickWins) :
           result.quickWins[i].title = "Tilføj mere indhold (~300 ord)"
               => result.quickWins[i].detail.n = w

\* the report is the one an H2 count of h gives
UsesH2Count(h) ==
    /\ contrib[7] = (IF h >= 2 THEN 5 ELSE IF h >= 1 THEN 3 ELSE 0)
    /\ result.recommendations[3].status =
           (IF h >= 2 THEN "ok" ELSE IF h >= 1 THEN "warn" ELSE "error")
    /\ result.recommendations[3].detail.n = h

\* the report is the one a link count of l gives
UsesLinkCount(l) ==
    /\ contrib[8] = (IF l >= 1 THEN 5 ELSE 0)
    /\ result.recommendations[5].status = (IF l >= 1 THEN "ok" ELSE "error")
    /\ result.recommendations[5].detail.n = (IF l >= 1 THEN l ELSE 0)
    /\ HasQuickWin("Byg interne links fra relaterede sider") <=> (l < 3)

\* C3 as claimed: every supplied wordCount, internalLinks or h2Count >= 0 is
\* the value the score, the recommendations, the content gaps and the quick
\* wins are computed from.
C3_EveryOverrideUsed ==
    pc = "done" =>
        /\ input.wordCount # Absent => UsesWordCount(input.wordCount[1])
        /\ input.h2Count # Absent => UsesH2Count(input.h2Count[1])
        /\ input.internalLinks # Absent => UsesLinkCount(input.internalLinks[1])

\* C3 as amended: every supplied wordCount or h2Count >= 0 and every supplied
\* internalLinks >= 1 is the value used; a supplied internalLinks of 0 is
\* treated as no override, and the link detection over the content is used.
C3_OverridesUsedExceptZeroLinks ==
    pc = "done" =>
        /\ input.wordCount # Absent => UsesWordCount(input.wordCount[1])
        /\ input.h2Count # Absent => UsesH2Count(input.h2Count[1])
        /\ (input.internalLinks # Absent /\ input.internalLinks[1] >= 1)
               => UsesLinkCount(input.internalLinks[1])
        /\ (input.internalLinks # Absent /\ input.internalLinks[1] = 0)
               => UsesLinkCount(detectLinks(input))

\* a call whose three overrides all differ from what the heuristics find
C3_OverridesDifferFromHeuristics ==
    /\ pc = "done"
    /\ input.wordCount = <<0>> /\ splitWords(input.bodyContent) > 0
    /\ input.h2Count = <<1>> /\ detectH2(input.bodyContent) = 2
    /\ input.internalLinks = <<1>> /\ detectLinks(input) = 3

\* s is empty or holds whitespace only
IsBlank(s) == \A i \in 1..Len(s) : s[i] \in WhiteSpace

\* C4 as claimed: for a non-empty target keyword the keyword list is the
\* target followed by the semantic keywords that are neither empty nor
\* whitespace-only, in input order.
C4_BlankKeywordsRemoved ==
    (pc = "done" /\ input.targetKeyword # <<>>) =>
        ReportedKeywords = <<input.targetKeyword>>
            \o SelectSeq(input.semanticKeywords, LAMBDA kw : ~IsBlank(kw))

\* C4 as amended: for a non-empty target keyword the keyword list is the
\* target followed by the semantic keywords that are not the empty string, in
\* input order; a whitespace-only entry is kept.
C4_EmptyKeywordsRemoved ==
    (pc = "done" /\ input.targetKeyword # <<>>) =>
        /\ ReportedKeywords = <<input.targetKeyword>>
               \o SelectSeq(input.semanticKeywords, LAMBDA kw : kw # <<>>)
        /\ Len(result.keywords) = 1 +
               Cardinality({i \in 1..Len(input.semanticKeywords) :
                                input.semanticKeywords[i] # <<>>})

\* a call whose semantic list holds an empty and a whitespace-only entry
C4_BlankEntriesReached ==
    /\ pc = "done" /\ input.targetKeyword # <<>>
    /\ \E i, j \in 1..Len(input.semanticKeywords) :
           input.semanticKeywords[i] = <<>> /\ input.semanticKeywords[j] = KwBlank

\* C5: every keyword record carries the occurrence count c of its keyword in
\* the lower-cased concatenation of title, description, H1 and body, and its
\* status is Mangler iff c = 0, Optimer iff 0 < c < m, God iff c >= m.
C5_StatusFollowsCount ==
    pc = "done" =>
        \A i \in 1..Len(result.keywords) :
            LET k == result.keywords[i]
                c == k.currentCount
                m == k.recommendedMin
            IN  /\ c = countOccurrences(fullText(input), k.keyword)
                /\ k.status \in {"Mangler", "Optimer", "God"}
                /\ (k.status = "Mangler") <=> (c = 0)
                /\ (k.status = "Optimer") <=> (0 < c /\ c < m)
                /\ (k.status = "God") <=> (c >= m)

\* a report whose keyword list holds all three statuses
C5_AllStatusesReached ==
    /\ pc = "done"
    /\ \A st \in {"Mangler", "Optimer", "God"} :
           \E i \in 1..Len(result.keywords) : result.keywords[i].status = st

\* the recommended range of the i-th keyword record
RangeOf(i) == <<result.keywords[i].recommendedMin, result.keywords[i].recommendedMax>>

\* C6 as claimed: the target keyword's record, the first entry, has range
\* [5,9] and every record that comes from the semantic list has range [2,4],
\* also when the semantic list repeats the target keyword.
C6_SemanticRangeAlways ==
    pc = "done" =>
        LET own == IF input.targetKeyword # <<>> THEN 1 ELSE 0
        IN  /\ own = 1 => RangeOf(1) = <<5, 9>>
            /\ \A i \in (own + 1)..Len(result.keywords) : RangeOf(i) = <<2, 4>>

\* C6 as amended: a record has range [5,9] iff its keyword is the very string
\* given as target keyword, and [2,4] otherwise; so the first entry of a
\* non-empty target has [5,9], and so has a semantic keyword that repeats it.
C6_RangeByTargetString ==
    pc = "done" =>
        /\ \A i \in 1..Len(result.keywords) :
               RangeOf(i) = (IF result.keywords[i].keyword = input.targetKeyword
                             THEN <<5, 9>> ELSE <<2, 4>>)
        /\ input.targetKeyword # <<>> => RangeOf(1) = <<5, 9>>

\* a report whose semantic part repeats the target keyword
C6_RepeatedTargetReached ==
    /\ pc = "done"
    /\ \E i \in 2..Len(result.keywords) : result.keywords[i].keyword = input.targetKeyword
    /\ \E i \in 2..Len(result.keywords) : RangeOf(i) = <<2, 4>>

C8_TitlePoints ==
    pc = "done" =>
        /\ contrib[1] =
               (IF ContainsIgnoringCase(input.pageTitle, input.targetKeyword) THEN 10 ELSE 0)
               + (IF Len(input.pageTitle) \in 30..65 THEN 5 ELSE 0)
        /\ (input.pageTitle = TitleExample /\ input.targetKeyword = KwRedShoes)
               => contrib[1] = 15

\* the example title analysed for "red shoes"
C8_ExampleReached ==
    /\ pc = "done"
    /\ input.pageTitle = TitleExample /\ input.targetKeyword = KwRedShoes
    /\ contrib[1] = 15

\* C9: the meta-description factor is +8 iff the description contains the
\* target keyword, letter case ignored, plus +7 iff it has 120 to 160
\* characters; 119 and 161 characters earn no length points.
C9_MetaPoints ==
    pc = "done" =>
        /\ contrib[2] =
               (IF ContainsIgnoringCase(input.metaDescription, input.targetKeyword)
                THEN 8 ELSE 0)
               + (IF Len(input.metaDescription) \in 120..160 THEN 7 ELSE 0)
        /\ Len(input.metaDescription) \in {119, 161} => contrib[2] \in {0, 8}

\* a description of 161 characters that holds the keyword and earns 8 only
C9_TooLongReached ==
    /\ pc = "done"
    /\ Len(input.metaDescription) = 161
    /\ input.targetKeyword = KwRedShoesCaps
    /\ contrib[2] = 8

\* C10 as claimed: the H1 factor is +5 iff the H1 is non-empty plus +5 iff
\* the H1 contains the target keyword, so it is 0 for an empty H1, 5 for an H1
\* without the keyword and 10 for an H1 with the keyword.
C10_H1Points ==
    pc = "done" =>
        LET present == Len(input.h1) > 0
            has == ContainsIgnoringCase(input.h1, input.targetKeyword)
        IN  /\ contrib[3] = (IF present THEN 5 ELSE 0) + (IF has THEN 5 ELSE 0)
            /\ ~present => contrib[3] = 0
            /\ (present /\ ~has) => contrib[3] = 5
            /\ (present /\ has) => contrib[3] = 10

\* the number of maximal runs of non-whitespace characters of s, counted at
\* the last character of each run
TokenCount(s) ==
    Cardinality({i \in 1..Len(s) :
        s[i] \notin WhiteSpace /\ (i = Len(s) \/ s[i + 1] \in WhiteSpace)})

\* C11: the content-length factor is 20 for w >= 800, 14 for 500..799, 8 for
\* 300..499, 4 for 150..299 and 0 below, so 14 for w = 799; without an
\* override w is the number of non-empty tokens of the body split on
\* whitespace runs.
C11_ContentPoints ==
    pc = "done" =>
        LET w == result.wordCount
        IN  /\ input.wordCount = Absent => w = TokenCount(input.bodyContent)
            /\ w >= 800 => contrib[4] = 20
            /\ (500 <= w /\ w < 800) => contrib[4] = 14
            /\ (300 <= w /\ w < 500) => contrib[4] = 8
            /\ (150 <= w /\ w < 300) => contrib[4] = 4
            /\ w < 150 => contrib[4] = 0
            /\ w = 799 => contrib[4] = 14

\* a body of 799 words, counted by the engine itself, earns 14
C11_Words799Reached ==
    /\ pc = "done" /\ input.wordCount = Absent
    /\ result.wordCount = 799 /\ contrib[4] = 14

\* the occurrence count of the target keyword the report was built from
ReportedTargetCount ==
    IF input.targetKeyword = <<>> THEN 0 ELSE result.keywords[1].currentCount

\* C12: the density factor is 15 for c >= 6, 10 for c in 4..5, 5 for c in
\* 2..3, 2 for c = 1 and 0 for c = 0, where c is the occurrence count of the
\* target keyword in the normalized text; it never decreases when c grows, and
\* c = 3 yields 5.
C12_DensityPoints ==
    /\ pc = "done" =>
           LET c == ReportedTargetCount
           IN  /\ c >= 6 => contrib[5] = 15
               /\ c \in 4..5 => contrib[5] = 10
               /\ c \in 2..3 => contrib[5] = 5
               /\ c = 1 => contrib[5] = 2
               /\ c = 0 => contrib[5] = 0
               /\ contrib[5] = densityPoints(c)
    /\ \A a, b \in 0..(MaxRepeats + 1) : a <= b => densityPoints(a) <= densityPoints(b)

\* a page on which the target keyword occurs exactly 3 times earns 5
C12_ThreeOccurrencesReached ==
    pc = "done" /\ ReportedTargetCount = 3 /\ contrib[5] = 5

\* title, description, H1 and body, separated by single spaces
PageText ==
    input.pageTitle \o <<" ">> \o input.metaDescription \o <<" ">> \o input.h1
    \o <<" ">> \o input.bodyContent

\* the keyword is not empty and occurs in the page text, letter case ignored
Occurs(kw) == kw # <<>> /\ ContainsIgnoringCase(PageText, kw)

\* C13: with n >= 1 supplied semantic keywords the semantic-coverage factor
\* is 15 * k / n rounded half up, k being the number of supplied semantic
\* keywords that occur at least once in the page text; a keyword is covered
\* from its first occurrence, whether its record is God or only Optimer.
C13_SemanticPoints ==
    (pc = "done" /\ Len(input.semanticKeywords) >= 1) =>
        LET n == Len(input.semanticKeywords)
            k == Cardinality({i \in 1..n : Occurs(input.semanticKeywords[i])})
        IN  /\ contrib[6] = (30 * k + n) \div (2 * n)
            /\ \A i \in 1..n :
                   Occurs(input.semanticKeywords[i]) <=>
                       \E j \in 1..Len(result.keywords) :
                           /\ result.keywords[j].keyword = input.semanticKeywords[i]
                           /\ result.keywords[j].status \in {"God", "Optimer"}

\* one of two semantic keywords occurs once: 7.5 is rounded up to 8, and the
\* covered keyword's record is only Optimer
C13_HalfRoundedUpReached ==
    /\ pc = "done"
    /\ input.semanticKeywords = <<KwSale, KwSocks>>
    /\ contrib[6] = 8
    /\ \E j \in 1..Len(result.keywords) :
           result.keywords[j].keyword = KwSale /\ result.keywords[j].status = "Optimer"

\* the H2 count that the subheadings recommendation reports
ReportedH2Count == result.recommendations[3].detail.n

\* C14: one H2 count h, the supplied h2Count or else the number of '##' or
\* '<h2' markers in the body, decides both the subheading factor and the
\* subheadings recommendation: h >= 2 gives 5 points and ok, h = 1 gives
\* 3 points and warn, h = 0 gives 0 points and error.
C14_SubheadingPoints ==
    pc = "done" =>
        LET h == ReportedH2Count
            rec == result.recommendations[3]
        IN  /\ rec.id = "subheadings"
            /\ h = IF input.h2Count = Absent THEN detectH2(input.bodyContent)
                                              ELSE input.h2Count[1]
            /\ (input.h2Count = Absent /\ input.bodyContent = BodyRich) => h = 2
            /\ (input.h2Count = Absent /\ input.bodyContent = BodyOneH2) => h = 1
            /\ (input.h2Count = Absent /\ input.bodyContent = BodyPlain) => h = 0
            /\ h >= 2 => contrib[7] = 5 /\ rec.status = "ok"
            /\ h = 1 => contrib[7] = 3 /\ rec.status = "warn"
            /\ h = 0 => contrib[7] = 0 /\ rec.status = "error"

\* a body with a single <H2> tag and no supplied count: 3 points and warn
C14_OneMarkerReached ==
    /\ pc = "done"
    /\ input.h2Count = Absent
    /\ input.bodyContent = BodyOneH2
    /\ contrib[7] = 3
    /\ result.recommendations[3].status = "warn"

\* the links that the three patterns find in a page with no supplied count:
\* one for a URL in the title, two for a markdown link and an anchor tag in
\* the description, one for a URL in the body
FoundLinks ==
    (IF input.pageTitle = TitleUrl THEN 1 ELSE 0)
    + (IF input.metaDescription = MetaLinks THEN 2 ELSE 0)
    + (IF input.bodyContent = BodyUrl THEN 1 ELSE 0)
    + (IF input.bodyContent = BodyRich THEN 3 ELSE 0)

\* C15 as claimed: one link count L, the supplied count or else the sum of
\* the markdown links, bare URLs and anchor tags found in title, description
\* and body, gives 5 points iff L >= 1, makes the links recommendation ok iff
\* L >= 1 and error otherwise, and appends the link quick win iff L < 3.
C15_SuppliedElseDetectedLinks ==
    pc = "done" =>
        UsesLinkCount(IF input.internalLinks = Absent THEN detectLinks(input)
                                                      ELSE input.internalLinks[1])

\* C15 as amended: the shared link count L is the supplied count when it is
\* at least 1, and otherwise (nothing supplied, or 0 supplied) the sum of
\* the markdown links, bare URLs and anchor tags found in body, title and
\* description; L >= 1 gives 5 points and ok, L = 0 gives 0 points and
\* error, and the link quick win is appended iff L < 3.
C15_PositiveElseDetectedLinks ==
    pc = "done" =>
        LET supplied == input.internalLinks # Absent /\ input.internalLinks[1] >= 1
            L == IF supplied THEN input.internalLinks[1] ELSE detectLinks(input)
        IN  /\ result.recommendations[5].id = "links"
            /\ UsesLinkCount(L)
            /\ contrib[8] \in {0, 5}
            /\ (~supplied /\ input.bodyContent \in {<<>>, BodyPlain, BodyUrl, BodyRich})
                   => L = FoundLinks

\* 0 links supplied but two found in the description alone: 5 points, ok,
\* and the quick win still appended
C15_ZeroSuppliedLinksFoundReached ==
    /\ pc = "done"
    /\ input.internalLinks = <<0>>
    /\ input.bodyContent = <<>> /\ input.pageTitle = TitleExample
    /\ input.metaDescription = MetaLinks
    /\ contrib[8] = 5
    /\ result.recommendations[5].status = "ok"
    /\ result.recommendations[5].detail.n = 2
    /\ HasQuickWin("Byg interne links fra relaterede sider")

\* the topic ids of the returned recommendations, in order
ReportedTopics ==
    [i \in 1..Len(result.recommendations) |-> result.recommendations[i].id]

\* C16: every report holds exactly 7 recommendations, with the topic ids
\* title, h1, subheadings, content, links, meta, faq in this order, each
\* with a severity among ok, warn and error.
C16_SevenFixedTopics ==
    pc = "done" =>
        /\ Len(result.recommendations) = 7
        /\ ReportedTopics =
               <<"title", "h1", "subheadings", "content", "links", "meta", "faq">>
        /\ \A i \in 1..7 : result.recommendations[i].status \in {"ok", "warn", "error"}

\* a report whose recommendations show all three severities
C16_AllSeveritiesReached ==
    /\ pc = "done"
    /\ \A s \in {"ok", "warn", "error"} :
           \E i \in 1..Len(result.recommendations) : result.recommendations[i].status = s

\* C17: the title recommendation is ok iff the title contains the target
\* keyword and is 30 to 65 characters long, warn iff it contains the keyword
\* and its length is out of range, and error iff it does not contain the
\* keyword, whatever its length; these are the two tests of the title
\* factor, so ok goes with 15 points, warn with 10 and error with 5 or 0.
C17_TitleSeverity ==
    pc = "done" =>
        LET has == ContainsIgnoringCase(input.pageTitle, input.targetKeyword)
            good == Len(input.pageTitle) >= 30 /\ Len(input.pageTitle) <= 65
            rec == result.recommendations[1]
        IN  /\ rec.id = "title"
            /\ rec.status = "ok" <=> (has /\ good)
            /\ rec.status = "warn" <=> (has /\ ~good)
            /\ rec.status = "error" <=> ~has
            /\ rec.status = "ok" <=> contrib[1] = 15
            /\ rec.status = "warn" <=> contrib[1] = 10
            /\ rec.status = "error" <=> contrib[1] \in {0, 5}

\* a title of 30 characters without the keyword: error, with the 5 points
\* of the length test
C17_GoodLengthWithoutKeywordReached ==
    /\ pc = "done"
    /\ input.targetKeyword = KwRedShoes
    /\ input.pageTitle = Pad(30)
    /\ result.recommendations[1].status = "error"
    /\ contrib[1] = 5

\* some FAQ indicator phrase occurs, letter case ignored, in body + H1 +
\* title once the characters _, * and # are taken out
FaqIndicated ==
    LET clean == SelectSeq(input.bodyContent \o input.h1 \o input.pageTitle,
                           LAMBDA c : c \notin {"_", "*", "#"})
    IN  \E p \in FaqPhrases : ContainsIgnoringCase(clean, p)

\* C18: the FAQ recommendation is ok iff no FAQ quick win is appended and
\* warn iff it is appended; a body containing the literal word FAQ gives ok
\* and no quick win; and detection is a case-insensitive search for an FAQ
\* indicator phrase in body + H1 + title after removing _, * and #.
C18_FaqCallSitesAgree ==
    pc = "done" =>
        LET rec == result.recommendations[7]
            win == HasQuickWin("Tilføj FAQ-sektion med JSON-LD")
        IN  /\ rec.id = "faq"
            /\ rec.status \in {"ok", "warn"}
            /\ rec.status = "ok" <=> ~win
            /\ rec.status = "warn" <=> win
            /\ includes(input.bodyContent, <<"F", "A", "Q">>)
                   => (rec.status = "ok" /\ ~win)
            /\ rec.status = "ok" <=> FaqIndicated

\* the phrase is found only after the markdown characters are removed, by
\* the recommendation and by the quick wins alike
C18_MarkupFaqReached ==
    /\ pc = "done"
    /\ input.bodyContent = BodyFaqMarkup
    /\ input.h1 = H1Plain /\ input.pageTitle = TitleExample
    /\ result.recommendations[7].status = "ok"
    /\ ~HasQuickWin("Tilføj FAQ-sektion med JSON-LD")

\* the number of keyword records with status Mangler
MissingCount ==
    Cardinality({i \in 1..Len(result.keywords) : result.keywords[i].status = "Mangler"})

\* C19: every report holds exactly 3 content gaps in the order content
\* depth, missing keywords, structured data; the content-depth gap is the
\* 'too short' variant iff the word count is below 500, and the
\* missing-keywords gap is the 'keywords missing' variant iff at least one
\* keyword record is Mangler.
C19_ThreeFixedGaps ==
    pc = "done" =>
        LET gaps == result.contentGaps
        IN  /\ Len(gaps) = 3
            /\ gaps[1].num = "Gap 01 · Indholdslængde"
            /\ gaps[2].num = "Gap 02 · Manglende keywords"
            /\ gaps[3].num = "Gap 03 · Strukturerede data"
            /\ gaps[1].title.variant = "Siden er for kort" <=> result.wordCount < 500
            /\ gaps[1].title.variant = "Indholdsdybde" <=> result.wordCount >= 500
            /\ gaps[1].description.variant = "too thin" <=> result.wordCount < 500
            /\ gaps[1].description.n = result.wordCount
            /\ gaps[2].title.variant = "n keywords mangler" <=> MissingCount >= 1
            /\ gaps[2].title.variant = "Semantisk dækning" <=> MissingCount = 0
            /\ gaps[2].description.variant = "all covered" <=> MissingCount = 0

\* a page of exactly 500 words with a missing keyword: the depth gap is not
\* the 'too short' one, the keyword gap is the 'keywords missing' one
C19_LongEnoughWithMissingReached ==
    /\ pc = "done"
    /\ result.wordCount = 500
    /\ MissingCount >= 1
    /\ result.contentGaps[1].title.variant = "Indholdsdybde"
    /\ result.contentGaps[2].title.variant = "n keywords mangler"

\* the keywords of the records with status Mangler, in keyword-list order
MissingReported ==
    LET recs == SelectSeq(result.keywords, LAMBDA r : r.status = "Mangler")
    IN  [i \in 1..Len(recs) |-> recs[i].keyword]

\* the description of the missing-keywords gap lists the first min(4, m)
\* missing keywords, in keyword-list order
ListsFirstFourMissing ==
    LET m == Len(MissingReported)
    IN  result.contentGaps[2].description.strs =
            SubSeq(MissingReported, 1, IF m < 4 THEN m ELSE 4)

\* C20 as claimed: with m >= 1 missing keywords the description of the
\* missing-keywords gap lists the first min(4, m) of them in keyword-list
\* order and carries a suffix exactly when m > 4, the suffix giving the
\* number m - 4 of keywords left out.
C20_SuffixCountsTheRest ==
    (pc = "done" /\ Len(MissingReported) >= 1) =>
        LET m == Len(MissingReported)
            d == result.contentGaps[2].description
        IN  /\ ListsFirstFourMissing
            /\ d.variant = "not found m.fl." <=> m > 4
            /\ m > 4 => d.n = m - 4

\* C20 as amended: with m >= 1 missing keywords the description lists the
\* first min(4, m) of them in keyword-list order and carries the fixed
\* suffix ' m.fl.' exactly when m > 4; no number is part of the description,
\* the count m appears in the title of the gap only.
C20_FixedSuffixWhenTruncated ==
    (pc = "done" /\ Len(MissingReported) >= 1) =>
        LET m == Len(MissingReported)
            d == result.contentGaps[2].description
        IN  /\ ListsFirstFourMissing
            /\ d.variant = "not found m.fl." <=> m > 4
            /\ d.variant = "not found" <=> m <= 4
            /\ d.n = 0
            /\ result.contentGaps[2].title.n = m

\* five keywords are missing: four are listed, the suffix is there, and
\* the description holds no number
C20_FiveMissingReached ==
    /\ pc = "done"
    /\ Len(MissingReported) = 5
    /\ Len(result.contentGaps[2].description.strs) = 4
    /\ result.contentGaps[2].description.variant = "not found m.fl."
    /\ result.contentGaps[2].description.n = 0

\* the five checks of the quick wins in their order: whether the check
\* holds for the analysed page, the priority and the title of its item
QuickWinChecks ==
    << << ~ContainsIgnoringCase(input.metaDescription, input.targetKeyword)
            \/ Len(input.metaDescription) < 120 \/ Len(input.metaDescription) > 160,
          "red", "Opdatér meta description" >>,
       << result.wordCount < 500, "red", "Tilføj mere indhold (~300 ord)" >>,
       << MissingCount >= 1, "yellow", "Inkludér manglende semantiske keywords" >>,
       << ~FaqIndicated, "yellow", "Tilføj FAQ-sektion med JSON-LD" >>,
       << result.recommendations[5].detail.n < 3, "green",
          "Byg interne links fra relaterede sider" >> >>

\* priority and title of the returned quick wins, in order
ReportedQuickWins ==
    [i \in 1..Len(result.quickWins) |->
        <<result.quickWins[i].priority, result.quickWins[i].title>>]

\* C21: the quick wins are the items of the five checks (meta description
\* deficient -> high, word count < 500 -> high, a keyword Missing -> medium,
\* no FAQ detected -> medium, link count < 3 -> low) that hold, one item
\* each, in the order of the checks; so 0 to 5 items and no topic twice.
C21_QuickWinsInCheckOrder ==
    pc = "done" =>
        LET holding == SelectSeq(QuickWinChecks, LAMBDA c : c[1])
        IN  /\ ReportedQuickWins = [i \in 1..Len(holding) |-> <<holding[i][2], holding[i][3]>>]
            /\ Len(result.quickWins) <= 5
            /\ \A i, j \in 1..Len(result.quickWins) :
                   i # j => result.quickWins[i].title # result.quickWins[j].title

\* all five checks hold at once and five items are returned
C21_AllFiveReached ==
    /\ pc = "done"
    /\ \A i \in 1..5 : QuickWinChecks[i][1]
    /\ Len(result.quickWins) = 5

\* the rank of a quick-win priority: red (high) before yellow (medium)
\* before green (low)
PriorityRank == ("red" :> 1) @@ ("yellow" :> 2) @@ ("green" :> 3)

\* C22: the quick wins of every report are sorted by priority: every red
\* item precedes every yellow item, which precedes every green item.
C22_QuickWinsSortedByPriority ==
    pc = "done" =>
        /\ \A i \in 1..Len(result.quickWins) :
               result.quickWins[i].priority \in DOMAIN PriorityRank
        /\ \A i, j \in 1..Len(result.quickWins) :
               i < j => PriorityRank[result.quickWins[i].priority]
                            <= PriorityRank[result.quickWins[j].priority]

\* a report with items of all three priorities, two of them red
C22_ThreePrioritiesReached ==
    /\ pc = "done"
    /\ Len(result.quickWins) >= 4
    /\ result.quickWins[1].priority = "red"
    /\ result.quickWins[2].priority = "red"
    /\ \E i \in 1..Len(result.quickWins) : result.quickWins[i].priority = "yellow"
    /\ result.quickWins[Len(result.quickWins)].priority = "green"

\* C23: with an empty target keyword no keyword-presence points are awarded
\* (title 10, meta description 8, H1 5) and no density points: the title
\* factor is at most the 5 points of its length, the meta factor at most
\* the 7 points of its length, the H1 factor at most the 5 points of its
\* presence, and the density factor is 0.
C23_EmptyTargetNoKeywordPoints ==
    (pc = "done" /\ input.targetKeyword = <<>>) =>
        /\ contrib[1] \in {0, 5}
        /\ contrib[2] \in {0, 7}
        /\ contrib[3] = (IF input.h1 # <<>> THEN 5 ELSE 0)
        /\ contrib[5] = 0

\* POST has ended: it returned a result or it threw
RouteEnded == routePc \in {"returned", "thrown"}

\* C24: every request handled by POST ends with a discriminated JSON
\* result, either success with a 2xx status or a failure with a readable
\* error message and a status outside 2xx; the handler never ends without
\* such a result, not for a body that is no valid JSON either.
C24_AlwaysDiscriminatedResult ==
    RouteEnded =>
        /\ routePc = "returned"
        /\ \/ reply.success /\ reply.status \in 200..299 /\ reply.error = <<>>
           \/ /\ ~reply.success
              /\ reply.status \in 100..599 /\ reply.status \notin 200..299
              /\ reply.error # <<>> /\ reply.error[1] # ""

\* s without its leading and trailing white space
Stripped(s) ==
    IF IsBlank(s) THEN <<>>
    ELSE SubSeq(s, Min({i \in 1..Len(s) : s[i] \notin WhiteSpace}),
                   Max({i \in 1..Len(s) : s[i] \notin WhiteSpace}))

\* the position of the k-th comma of s; 0 before the first and Len(s) + 1
\* after the last
CommaAt(s, k) ==
    LET commas == {i \in 1..Len(s) : s[i] = ","}
    IN  IF k = 0 THEN 0
        ELSE IF k > Cardinality(commas) THEN Len(s) + 1
        ELSE CHOOSE i \in commas : Cardinality({j \in commas : j < i}) = k - 1

\* the stripped, non-empty pieces of s between its commas, in order
CommaTokens(s) ==
    LET n == Cardinality({i \in 1..Len(s) : s[i] = ","}) + 1
        piece(k) == Stripped(SubSeq(s, CommaAt(s, k - 1) + 1, CommaAt(s, k) - 1))
    IN  SelectSeq([k \in 1..n |-> piece(k)], LAMBDA p : p # <<>>)

\* the report of the form as it stands now
LiveReport ==
    analyzeSeo([url |-> form.url, competitorUrls |-> <<>>,
                targetKeyword |-> Stripped(form.targetKeyword),
                semanticKeywords |-> CommaTokens(form.semanticKeywords),
                pageTitle |-> form.pageTitle, metaDescription |-> form.metaDescription,
                h1 |-> form.h1, bodyContent |-> form.bodyContent,
                wordCount |-> Absent, internalLinks |-> Absent, h2Count |-> Absent])

\* C25: after any sequence of form edits, scrape completions and resets the
\* displayed result is null exactly when the target keyword field is empty,
\* and otherwise it is the report of the input derived from the current
\* form (stripped target keyword, stripped non-empty comma-separated
\* semantic keywords, current title, meta description, H1 and body), never
\* that of an earlier form.
C25_ResultIsLive ==
    /\ (result = NoResult) <=> (form.targetKeyword = <<>>)
    /\ result # NoResult => result = LiveReport

\* a padded target keyword and a ragged semantic list typed next to fields a
\* scrape has filled
C25_EditedAfterScrape ==
    /\ form.targetKeyword = FieldPadded
    /\ form.semanticKeywords = FieldSemantic
    /\ form.pageTitle = TitleExample
    /\ form.bodyContent = BodyPlain
    /\ result # NoResult
    /\ Len(result.keywords) = 4

\* kw stands in text at index i, letter case ignored
LiteralAt(text, kw, i) ==
    /\ i + Len(kw) - 1 <= Len(text)
    /\ \A j \in 1..Len(kw) : Lower(text[i + j - 1]) = Lower(kw[j])

\* the occurrences of kw in text from index i on, counted from left to
\* right, each starting after the end of the one before
RECURSIVE LiteralCount(_, _, _)
LiteralCount(text, kw, i) ==
    LET found == {p \in i..Len(text) : LiteralAt(text, kw, p)}
    IN  IF found = {} THEN 0
        ELSE 1 + LiteralCount(text, kw, Min(found) + Len(kw))

\* C26: countOccurrences(text, keyword) is the number of non-overlapping
\* occurrences, counted from left to right, of the keyword as a literal
\* substring of the text, letter case ignored; pattern metacharacters of
\* the keyword match only themselves; for an empty text or an empty keyword
\* it is 0.
C26_LiteralOccurrences ==
    pc = "done" =>
        /\ (input.text = <<>> \/ input.keyword = <<>>) => result = 0
        /\ (input.text # <<>> /\ input.keyword # <<>>) =>
               result = LiteralCount(input.text, input.keyword, 1)

\* "C++" counted in a text that holds it twice, next to "c+" and "ccc+++"
C26_MetacharactersCounted ==
    /\ pc = "done"
    /\ toLowerCase(input.keyword) = <<"c", "+", "+">>
    /\ input.keyword # toLowerCase(input.keyword)
    /\ Len(input.text) > 20
    /\ includes(toLowerCase(input.text), <<"c", "+", "+">>)
    /\ result = 3

\* the number of keyword records with the given status
RecordsWith(st) ==
    Cardinality({i \in 1..Len(result.keywords) : result.keywords[i].status = st})

\* C27: the three tallies partition the keyword list: keywordsFound,
\* keywordsOptimise and keywordsMissing are the numbers of records with
\* status God, Optimer and Mangler, their sum is the length of the keyword
\* list, and keywordsMissing is the number of missing keywords the content
\* gap announces, the quick win about missing keywords being present
\* exactly when it is positive.
C27_TalliesPartitionKeywords ==
    pc = "done" =>
        /\ result.keywordsFound = RecordsWith("God")
        /\ result.keywordsOptimise = RecordsWith("Optimer")
        /\ result.keywordsMissing = RecordsWith("Mangler")
        /\ result.keywordsFound + result.keywordsOptimise + result.keywordsMissing
               = Len(result.keywords)
        /\ IF result.keywordsMissing > 0
           THEN /\ result.contentGaps[2].title.variant = "n keywords mangler"
                /\ result.contentGaps[2].title.n = result.keywordsMissing
                /\ HasQuickWin("Inkludér manglende semantiske keywords")
           ELSE /\ result.contentGaps[2].title.variant = "Semantisk dækning"
                /\ ~HasQuickWin("Inkludér manglende semantiske keywords")

\* a report with keywords of all three statuses, more than one of them
\* missing
C27_AllThreeTalliesReached ==
    /\ pc = "done"
    /\ result.keywordsFound >= 1
    /\ result.keywordsOptimise >= 1
    /\ result.keywordsMissing >= 2

\* C28: the structured-data content gap agrees with FAQ detection: it
\* states that the FAQ section with JSON-LD is missing only when no FAQ
\* section is detected, so no report has the FAQ recommendation at ok
\* together with a gap stating that the FAQ section is missing.
C28_FaqGapAgreesWithDetection ==
    pc = "done" =>
        /\ result.contentGaps[3].title.variant = "FAQ + JSON-LD mangler" => ~FaqIndicated
        /\ ~ /\ result.recommendations[7].status = "ok"
             /\ result.contentGaps[3].title.variant = "FAQ + JSON-LD mangler"

\* handleScrape returns in this step, its fetch having settled
ScrapeEnds == scrapeCall.active /\ scrapeCall.settled /\ ~scrapeCall'.active

\* the scrape failed: a network exception or an unreadable body, a non-OK
\* response, or a response carrying an error field
ScrapeFailed ==
    \/ scrapeCall.outcome.kind # "json"
    \/ ~scrapeCall.outcome.ok
    \/ scrapeCall.outcome.error # ""

KeywordsOf(report) == [i \in 1..Len(report.keywords) |-> report.keywords[i].keyword]

\* the competitor panel is rendered next to the page's own result
ComparisonShown == competitorAnalysis # NoAnalysis /\ result # NoResult

\* C30: whenever a competitor analysis is shown next to the page's own
\* result, both were computed for the same target keyword and the same
\* semantic keyword list, whatever form edits happened while the competitor
\* analysis was in flight or after it completed.
C30_ComparisonForSameKeywords ==
    ComparisonShown => KeywordsOf(competitorAnalysis.result) = KeywordsOf(result)
=============================================================================
